---- MODULE Spec2Model ----
(***************************************************************************)
(* A model of obsplus' WaveBank (src/obsplus/bank/wavebank.py): a          *)
(* directory of waveform files, the HDF5 index store built from it, the    *)
(* in-memory index cache, and the query / write operations of the bank.    *)
(*                                                                         *)
(* Times are integers in milliseconds.  A code (network, station,          *)
(* location, channel) is a sequence of one-character strings, so that the  *)
(* string operations of the code (replace, fnmatch, concatenation) can be  *)
(* computed character by character.  An optional value is <<>> (None) or   *)
(* <<x>>.                                                                  *)
(***************************************************************************)
EXTENDS Integers, Sequences, FiniteSets, TLC

VARIABLES
    files,      \* the base directory: path -> file (present, samples, mtime, readable)
    store,      \* the index store file (.index.h5): exists, rows, meta, last_updated
    cache,      \* the _IndexCache entries of the bank instance, oldest first
    clock,      \* the wall clock (time.time()), a logical clock
    nwrites,    \* number of operations so far that changed the directory
    last,       \* the last operation: its name, inputs and outcome
    lock,       \* the lock of update_index: 0 when free, else the caller holding it
    callers     \* the threads that use the bank concurrently: where each one stands

vars == <<files, store, cache, clock, nwrites, last, lock, callers>>

-----------------------------------------------------------------------------
(* Bounds of the model *)

\* operations that change the base directory (put_waveforms, file drops)
MaxWrites == 2

\* the capacity the bank is constructed with (cache_size)
cache_size == 2

\* rows of an index dataframe handed to filter_index directly
MaxRows == 2

\* threads that call update_index concurrently
MaxCallers == 2

-----------------------------------------------------------------------------
(* Generic helpers *)

None == <<>>
Some(x) == <<x>>

Range(s) == {s[i] : i \in DOMAIN s}

RECURSIVE Flatten(_)
\* chain.from_iterable: the concatenation of a sequence of sequences
Flatten(ss) == IF ss = <<>> THEN <<>> ELSE Head(ss) \o Flatten(Tail(ss))

Min(S) == CHOOSE x \in S : \A y \in S : x <= y
Max(S) == CHOOSE x \in S : \A y \in S : x >= y

\* the elements of seq `order` that are in set S, in the order of `order`
Ordered(order, S) == SelectSeq(order, LAMBDA x : x \in S)

RECURSIVE Unique(_)
\* the distinct elements of a sequence in order of first occurrence
Unique(s) ==
    IF s = <<>> THEN <<>>
    ELSE LET x == s[Len(s)]
             Add(init) == IF x \in Range(init) THEN init ELSE Append(init, x)
         IN  Add(Unique(SubSeq(s, 1, Len(s) - 1)))

RECURSIVE Join(_, _)
\* sep.join(parts) on character sequences
Join(parts, sep) ==
    IF parts = <<>> THEN <<>>
    ELSE IF Len(parts) = 1 THEN parts[1]
    ELSE parts[1] \o sep \o Join(Tail(parts), sep)

-----------------------------------------------------------------------------
(* The universe of waveform data *)

\* class attribute WaveBank.buffer = 10.111 s, in milliseconds
buffer == 10111

\* sample spacing of every trace of the universe, in milliseconds
delta == 10000

UU == <<"U", "U">>
A1 == <<"A", "1">>
Ab == <<"A", "b">>
NoLoc == <<>>
L01 == <<"0", "1">>
Dashes == <<"-", "-">>
HHZ == <<"H", "H", "Z">>

\* NSLC of obsplus.constants
NSLC == <<"network", "station", "location", "channel">>

\* a trace: codes, time of first and last sample, and the value of its samples
Tr(sta, loc, t1, t2, v) ==
    [network |-> UU, station |-> sta, location |-> loc, channel |-> HHZ,
     starttime |-> t1, endtime |-> t2, val |-> v]

T1 == Tr(A1, NoLoc, delta, 2 * delta, 1)
T2 == Tr(A1, NoLoc, delta, delta, 2)
T3 == Tr(A1, NoLoc, 3 * delta, 4 * delta, 1)
T4 == Tr(Ab, NoLoc, delta, delta, 1)
T5 == Tr(A1, L01, delta, delta, 1)

\* the calls of put_waveforms: a stream (a sequence of traces) and a name
Puts == { [stream |-> <<>>, name |-> None],
          [stream |-> <<T1>>, name |-> None],
          [stream |-> <<T4>>, name |-> None],
          [stream |-> <<T2, T5>>, name |-> None],
          [stream |-> <<T3, T4>>, name |-> None],
          [stream |-> <<T1, T3>>, name |-> Some(<<"n">>)] }

TraceId(tr) == <<tr.network, tr.station, tr.location, tr.channel>>

\* the samples of a trace: one per grid point of [starttime, endtime]
TraceSamples(tr) ==
    { [id |-> TraceId(tr), t |-> tr.starttime + k * delta, v |-> tr.val] :
        k \in 0 .. ((tr.endtime - tr.starttime) \div delta) }

StreamSamples(st) == UNION { TraceSamples(st[i]) : i \in DOMAIN st }

\* obspy's Trace.id: "network.station.location.channel"
SeedStr(id) == Join(id, <<".">>)

-----------------------------------------------------------------------------
(* The base directory *)

\* self.bank_path, one path component
bank_path == <<"/bank">>

\* a file of the directory that is no waveform file (unreadable for obspy)
JunkPath == <<bank_path, <<"notes.txt">>>>

\* summarize_trace: the destination of a trace under path_structure
\* {network}/{station}/{channel} and name_structure {time}, or the given name
TracePath(tr, name) ==
    <<bank_path, tr.network, tr.station, tr.channel,
      IF name = None THEN <<ToString(tr.starttime)>> ELSE name[1]>>

\* recordings of 10 samples spacings each, copied into the directory as one
\* file each: three of one channel, back to back and then after a pause, and
\* one of another station
R1 == Tr(A1, NoLoc, 0, 10 * delta, 1)
R2 == Tr(A1, NoLoc, 10 * delta, 20 * delta, 1)
R3 == Tr(A1, NoLoc, 30 * delta, 40 * delta, 1)
R4 == Tr(<<"A", "B", "C">>, NoLoc, 0, 10 * delta, 1)
Recordings == {R1, R2, R3, R4}

\* a long recording of the first channel that spans the later ones and the
\* pause between them
R5 == Tr(A1, NoLoc, 5 * delta, 40 * delta, 1)
Overlapping == {R2, R3, R5}

AllTraces == UNION { Range(pt.stream) : pt \in Puts } \cup Recordings \cup Overlapping

Paths == UNION { { TracePath(tr, pt.name) : tr \in Range(pt.stream) } : pt \in Puts }
            \cup { TracePath(tr, None) : tr \in Recordings \cup Overlapping }
            \cup {JunkPath}

RECURSIVE SetToSeq(_)
SetToSeq(S) ==
    IF S = {} THEN <<>>
    ELSE LET x == CHOOSE y \in S : TRUE IN <<x>> \o SetToSeq(S \ {x})

RECURSIVE SortInts(_)
SortInts(S) == IF S = {} THEN <<>> ELSE <<Min(S)>> \o SortInts(S \ {Min(S)})

\* the order in which the directory walk yields the files
WalkOrder == SetToSeq(Paths)

\* the order in which a file's channels are read
IdOrder == SetToSeq({ TraceId(tr) : tr \in AllTraces })

NoFile == [present |-> FALSE, samples |-> {}, mtime |-> 0, readable |-> FALSE]

\* os.path.exists(path)
Exists(fs, p) == fs[p].present

\* obspy's Stream.merge(method=1) of new data with data read before: the union
\* of the samples; where both hold a sample of one channel at one time, the
\* library keeps one of the two (pref)
MergeSamples(new, old, pref) ==
    IF pref = "new"
    THEN new \cup { s \in old : ~ \E x \in new : x.id = s.id /\ x.t = s.t }
    ELSE old \cup { s \in new : ~ \E x \in old : x.id = s.id /\ x.t = s.t }

\* the contiguous segments of channel `id` in a set of samples, as
\* <<starttime, endtime>> pairs ordered by starttime
Segments(samples, id) ==
    LET P == { s.t : s \in { x \in samples : x.id = id } }
        starts == { t \in P : (t - delta) \notin P }
        EndOf(t) == Min({ u \in P : u >= t /\ (u + delta) \notin P })
        ordered == SortInts(starts)
    IN  [i \in DOMAIN ordered |-> <<ordered[i], EndOf(ordered[i])>>]

\* summarize_wave_file: one summary per contiguous channel-segment of the file,
\* carrying the absolute path; nothing for a file that cannot be read
summarize_wave_file(fs, p) ==
    IF ~ fs[p].readable THEN <<>>
    ELSE LET ids == Ordered(IdOrder, { s.id : s \in fs[p].samples })
             RowsOf(id) ==
                LET segs == Segments(fs[p].samples, id)
                IN  [i \in DOMAIN segs |->
                        [network |-> id[1], station |-> id[2],
                         location |-> id[3], channel |-> id[4],
                         starttime |-> segs[i][1], endtime |-> segs[i][2],
                         path |-> p]]
         IN  Flatten([i \in DOMAIN ids |-> RowsOf(ids[i])])

-----------------------------------------------------------------------------
(* The index store *)

NoStore == [exists |-> FALSE, rows |-> <<>>, meta |-> None, last_updated |-> None]

\* os.path.exists(self.index_path)
IndexExists(st) == st.exists

\* WaveBank.last_updated: the stored timestamp, None when it cannot be read
last_updated(st) == IF st.exists THEN st.last_updated ELSE None

\* _Bank._unindexed_file_iterator: the files modified after the last update,
\* every file when there is no index yet; in walk order
unindexed_files(fs, st) ==
    LET lu == last_updated(st)
    IN  Ordered(WalkOrder,
                { p \in Paths : fs[p].present /\ (lu = None \/ fs[p].mtime > lu[1]) })

\* a missing value of a summary: None in a code column, NaN in a time column
\* once cast to float (line 220)
PyNone == <<"<None>">>
NaN == 0 - 1

\* df[str_index].astype(str) on one code: a missing value becomes its name
AsStr(code) == IF code = PyNone THEN <<"N", "o", "n", "e">> ELSE code

\* sser.str.replace("b", "").str.replace("'", "") on one code
StripCode(code) == SelectSeq(code, LAMBDA ch : ch # "b" /\ ch # "'")

\* df.isnull().any().any() after the casts: a time that is NaN
AnyNull(df) ==
    \E i \in DOMAIN df :
        df[i].starttime = NaN \/ df[i].endtime = NaN \/ df[i].path = PyNone

\* df["path"].str.replace(self.bank_path, "")
StripBankPath(p) == SelectSeq(p, LAMBDA c : c # bank_path)

\* self._make_meta_table()
MetaTable == [path_structure |-> "{network}/{station}/{channel}",
              name_structure |-> "{time}"]

\* _write_update that forgets to stamp last_updated (line 239)
_write_update_no_stamp(updates, st, clk) ==
    IF updates = <<>>
    THEN [status |-> "KeyError", store |-> st, clock |-> clk, appended |-> <<>>]
    ELSE LET nrows == IF st.exists THEN Len(st.rows) ELSE 0
             df == [i \in DOMAIN updates |->
                      [label |-> nrows + i - 1,
                       network |-> StripCode(AsStr(updates[i].network)),
                       station |-> StripCode(AsStr(updates[i].station)),
                       location |-> StripCode(AsStr(updates[i].location)),
                       channel |-> StripCode(AsStr(updates[i].channel)),
                       starttime |-> updates[i].starttime,
                       endtime |-> updates[i].endtime,
                       path |-> StripBankPath(updates[i].path)]]
         IN  IF AnyNull(df)
             THEN [status |-> "AssertionError", store |-> st, clock |-> clk,
                   appended |-> <<>>]
             ELSE
             [status |-> "ok",
              store |-> [exists |-> TRUE,
                         rows |-> st.rows \o df,
                         meta |-> IF st.meta = None THEN Some(MetaTable) ELSE st.meta,
                         last_updated |-> st.last_updated],
              clock |-> clk + 1,
              appended |-> df]

\* _write_update that never adds the metadata table (lines 235-237)
_write_update_no_meta(updates, st, clk) ==
    IF updates = <<>>
    THEN [status |-> "KeyError", store |-> st, clock |-> clk, appended |-> <<>>]
    ELSE LET nrows == IF st.exists THEN Len(st.rows) ELSE 0
             df == [i \in DOMAIN updates |->
                      [label |-> nrows + i - 1,
                       network |-> StripCode(AsStr(updates[i].network)),
                       station |-> StripCode(AsStr(updates[i].station)),
                       location |-> StripCode(AsStr(updates[i].location)),
                       channel |-> StripCode(AsStr(updates[i].channel)),
                       starttime |-> updates[i].starttime,
                       endtime |-> updates[i].endtime,
                       path |-> StripBankPath(updates[i].path)]]
         IN  IF AnyNull(df)
             THEN [status |-> "AssertionError", store |-> st, clock |-> clk,
                   appended |-> <<>>]
             ELSE
             [status |-> "ok",
              store |-> [exists |-> TRUE,
                         rows |-> st.rows \o df,
                         meta |-> st.meta,
                         last_updated |-> Some(clk + 1)],
              clock |-> clk + 1,
              appended |-> df]

\* _write_update that does not shift the labels of the batch by the stored
\* row count (line 232)
_write_update_no_offset(updates, st, clk) ==
    IF updates = <<>>
    THEN [status |-> "KeyError", store |-> st, clock |-> clk, appended |-> <<>>]
    ELSE LET df == [i \in DOMAIN updates |->
                      [label |-> i - 1,
                       network |-> StripCode(AsStr(updates[i].network)),
                       station |-> StripCode(AsStr(updates[i].station)),
                       location |-> StripCode(AsStr(updates[i].location)),
                       channel |-> StripCode(AsStr(updates[i].channel)),
                       starttime |-> updates[i].starttime,
                       endtime |-> updates[i].endtime,
                       path |-> StripBankPath(updates[i].path)]]
         IN  IF AnyNull(df)
             THEN [status |-> "AssertionError", store |-> st, clock |-> clk,
                   appended |-> <<>>]
             ELSE
             [status |-> "ok",
              store |-> [exists |-> TRUE,
                         rows |-> st.rows \o df,
                         meta |-> IF st.meta = None THEN Some(MetaTable) ELSE st.meta,
                         last_updated |-> Some(clk + 1)],
              clock |-> clk + 1,
              appended |-> df]

\* the body of _write_update, nrows being the row count read from the store
\* (line 226): normalise the summaries, append them to the index node with
\* labels continuing nrows, add the metadata if missing and stamp
\* last_updated.  An empty batch fails on df["path"], a batch with a null
\* value on the assertion of line 222.
_write_update_at(updates, st, clk, nrows) ==
    IF updates = <<>>
    THEN [status |-> "KeyError", store |-> st, clock |-> clk, appended |-> <<>>]
    ELSE LET df == [i \in DOMAIN updates |->
                      [label |-> nrows + i - 1,
                       network |-> StripCode(AsStr(updates[i].network)),
                       station |-> StripCode(AsStr(updates[i].station)),
                       location |-> StripCode(AsStr(updates[i].location)),
                       channel |-> StripCode(AsStr(updates[i].channel)),
                       starttime |-> updates[i].starttime,
                       endtime |-> updates[i].endtime,
                       path |-> StripBankPath(updates[i].path)]]
         IN  IF AnyNull(df)
             THEN [status |-> "AssertionError", store |-> st, clock |-> clk,
                   appended |-> <<>>]
             ELSE
             [status |-> "ok",
              store |-> [exists |-> TRUE,
                         rows |-> st.rows \o df,
                         meta |-> IF st.meta = None THEN Some(MetaTable) ELSE st.meta,
                         last_updated |-> Some(clk + 1)],
              clock |-> clk + 1,
              appended |-> df]

\* storer.nrows of the index node, 0 when the node does not exist yet
StoredRows(st) == IF st.exists THEN Len(st.rows) ELSE 0

\* _write_update, run without interruption
_write_update(updates, st, clk) == _write_update_at(updates, st, clk, StoredRows(st))

\* _IndexCache.clear_cache
clear_cache(ca) == <<>>

\* update_index that leaves the cache as it is after the write (line 207)
update_index_no_clear(fs, st, ca, clk) ==
    LET Summaries(pending) ==
            [i \in DOMAIN pending |-> summarize_wave_file(fs, pending[i])]
        updates == Summaries(unindexed_files(fs, st))
        Done(w) == [status |-> w.status, store |-> w.store, clock |-> w.clock,
                    appended |-> w.appended, cache |-> ca]
    IN  IF Len(updates) > 0
        THEN Done(_write_update(Flatten(updates), st, clk))
        ELSE [status |-> "ok", store |-> st, clock |-> clk,
              appended |-> <<>>, cache |-> ca]

\* update_index that writes the batch whether or not a file was pending
\* (line 204)
update_index_always_write(fs, st, ca, clk) ==
    LET Summaries(pending) ==
            [i \in DOMAIN pending |-> summarize_wave_file(fs, pending[i])]
        Done(w) == [status |-> w.status, store |-> w.store, clock |-> w.clock,
                    appended |-> w.appended,
                    cache |-> IF w.status = "ok" THEN clear_cache(ca) ELSE ca]
    IN  Done(_write_update(Flatten(Summaries(unindexed_files(fs, st))), st, clk))

\* update_index: summarise every unindexed file; if there was any, write the
\* flattened summaries and clear the cache
update_index(fs, st, ca, clk) ==
    LET Summaries(pending) ==
            [i \in DOMAIN pending |-> summarize_wave_file(fs, pending[i])]
        updates == Summaries(unindexed_files(fs, st))
        Done(w) == [status |-> w.status, store |-> w.store, clock |-> w.clock,
                    appended |-> w.appended,
                    cache |-> IF w.status = "ok" THEN clear_cache(ca) ELSE ca]
    IN  IF Len(updates) > 0
        THEN Done(_write_update(Flatten(updates), st, clk))
        ELSE [status |-> "ok", store |-> st, clock |-> clk,
              appended |-> <<>>, cache |-> ca]

\* the progress hooks handed to update_index: none, one that works, one
\* whose update fails, one whose finish fails
Bars == {"none", "works", "update_fails", "finish_fails"}

\* update_index(bar=...): bar.update(num) is called after each file is
\* summarised (lines 199-202) and bar.finish() after the loop (line 203),
\* neither inside a try; what they raise leaves update_index before the write
update_index_bar(fs, st, ca, clk, bar) ==
    IF \/ bar = "update_fails" /\ unindexed_files(fs, st) # <<>>
       \/ bar = "finish_fails"
    THEN [status |-> "Exception", store |-> st, clock |-> clk,
          appended |-> <<>>, cache |-> ca]
    ELSE update_index(fs, st, ca, clk)

-----------------------------------------------------------------------------
(* The index cache *)

\* the rows of a dataframe selected by a boolean mask: index[mask]
Select(index, mask) ==
    LET Rows(keep) == [k \in DOMAIN keep |-> index[keep[k]]]
    IN  Rows(SelectSeq([i \in DOMAIN index |-> i], LAMBDA i : mask[i]))

\* the overlap test of a row with [lo, hi]; None is unbounded
Overlaps(row, lo, hi) ==
    ~ (   (lo # None /\ row.endtime < lo[1])
       \/ (hi # None /\ row.starttime > hi[1]))

\* the columns a read keeps: kwargs is "" or "no_path" (columns=columns_no_path)
Project(row, kwargs) == IF kwargs = "no_path" THEN [row EXCEPT !.path = <<>>] ELSE row

\* the kernel read of the store: the rows overlapping [lo, hi]; nothing when
\* there is no store file
read_range(st, lo, hi, kwargs) ==
    IF ~ st.exists THEN <<>>
    ELSE LET mask == [i \in DOMAIN st.rows |-> Overlaps(st.rows[i], lo, hi)]
             Columns(hit) == [i \in DOMAIN hit |-> Project(hit[i], kwargs)]
         IN  Columns(Select(st.rows, mask))

CacheKey(starttime, endtime, buf, kwargs) == <<starttime, endtime, buf, kwargs>>

\* _IndexCache.__call__: the cached rows of an exact repeat of the request;
\* else a store read of the range padded by the buffer, kept under the request
\* with the oldest entry evicted beyond the capacity
IndexCache(ca, st, starttime, endtime, buf, kwargs) ==
    LET key == CacheKey(starttime, endtime, buf, kwargs)
        lo == IF starttime = None THEN None ELSE Some(starttime[1] - buf)
        hi == IF endtime = None THEN None ELSE Some(endtime[1] + buf)
        Keep(added) == IF Len(added) > cache_size THEN Tail(added) ELSE added
        Miss(index) == [index |-> index,
                        cache |-> Keep(Append(ca, [key |-> key, index |-> index])),
                        storeRead |-> TRUE]
        Lookup(hits) == IF hits # <<>>
                        THEN [index |-> hits[1].index, cache |-> ca, storeRead |-> FALSE]
                        ELSE Miss(read_range(st, lo, hi, kwargs))
    IN  Lookup(SelectSeq(ca, LAMBDA en : en.key = key))

-----------------------------------------------------------------------------
(* The query engine *)

\* a filter argument: None, a str, or a sequence (here a set) of codes
NoFilter == [kind |-> "none", val |-> <<>>]
Str(code) == [kind |-> "str", val |-> code]
OneOf(codes) == [kind |-> "seq", val |-> codes]

RECURSIVE ClassEnd(_, _)
\* fnmatch.translate's scan for the "]" closing a class, from position j; 0 if none
ClassEnd(pat, j) ==
    IF j > Len(pat) THEN 0
    ELSE IF pat[j] = "]" THEN j
    ELSE ClassEnd(pat, j + 1)

RECURSIVE FnMatch(_, _)
\* re.match(fnmatch.translate(pat), s): the whole of s matches the shell
\* pattern pat ("*", "?", "[...]", "[!...]"; a "[" that is not closed is literal)
FnMatch(pat, s) ==
    IF pat = <<>> THEN s = <<>>
    ELSE LET c == Head(pat)
             rest == Tail(pat)
         IN  CASE c = "*" -> FnMatch(rest, s) \/ (s # <<>> /\ FnMatch(pat, Tail(s)))
               [] c = "?" -> s # <<>> /\ FnMatch(rest, Tail(s))
               [] c = "[" ->
                    LET j0 == 2
                        j1 == IF j0 <= Len(pat) /\ pat[j0] = "!" THEN j0 + 1 ELSE j0
                        j2 == IF j1 <= Len(pat) /\ pat[j1] = "]" THEN j1 + 1 ELSE j1
                        j == ClassEnd(pat, j2)
                    IN  IF j = 0
                        THEN s # <<>> /\ Head(s) = "[" /\ FnMatch(rest, Tail(s))
                        ELSE LET neg == pat[2] = "!"
                                 stuff == { pat[k] : k \in (IF neg THEN 3 ELSE 2) .. (j - 1) }
                                 after == SubSeq(pat, j + 1, Len(pat))
                             IN  /\ s # <<>>
                                 /\ (Head(s) \in stuff) # neg
                                 /\ FnMatch(after, Tail(s))
               [] OTHER -> s # <<>> /\ Head(s) = c /\ FnMatch(rest, Tail(s))

RECURSIVE FilterLoop(_, _, _, _)
\* one pass of filter_index's loops: bool_index and-ed with the test of each
\* key of `keys` whose query value is of kind `kind`
FilterLoop(bool_index, index, query, keys) ==
    IF keys = <<>> THEN bool_index
    ELSE LET key == Head(keys)
             val == query[key].val
             New(i) == IF query[key].kind = "str"
                       THEN FnMatch(val, index[i][key])
                       ELSE index[i][key] \in val
         IN  FilterLoop([i \in DOMAIN index |-> bool_index[i] /\ New(i)],
                        index, query, Tail(keys))

\* filter_index that matches a row against the elements of a sequence filter
\* as patterns
filter_index_expand(index, net, sta, loc, chan, start, end) ==
    LET query == [network |-> net, station |-> sta, location |-> loc, channel |-> chan]
        Test(f, v) == CASE f.kind = "none" -> TRUE
                        [] f.kind = "str" -> FnMatch(f.val, v)
                        [] OTHER -> \E pat \in f.val : FnMatch(pat, v)
    IN  [i \in DOMAIN index |->
            /\ \A k \in DOMAIN NSLC : Test(query[NSLC[k]], index[i][NSLC[k]])
            /\ Overlaps(index[i], start, end)]

\* filter_index whose patterns need only match the start of a value
filter_index_prefix(index, net, sta, loc, chan, start, end) ==
    LET query == [network |-> net, station |-> sta, location |-> loc, channel |-> chan]
        Prefix(pat, v) == \E n \in 0 .. Len(v) : FnMatch(pat, SubSeq(v, 1, n))
        Test(f, v) == CASE f.kind = "none" -> TRUE
                        [] f.kind = "str" -> Prefix(f.val, v)
                        [] OTHER -> v \in f.val
    IN  [i \in DOMAIN index |->
            /\ \A k \in DOMAIN NSLC : Test(query[NSLC[k]], index[i][NSLC[k]])
            /\ Overlaps(index[i], start, end)]

\* filter_index: the mask of the rows that meet every given filter
filter_index(index, net, sta, loc, chan, start, end) ==
    LET query == [network |-> net, station |-> sta, location |-> loc, channel |-> chan]
        match_query == SelectSeq(NSLC, LAMBDA k : query[k].kind = "str")
        sequence_query == SelectSeq(NSLC, LAMBDA k : query[k].kind = "seq")
        ones == [i \in DOMAIN index |-> TRUE]
        InTime(bool_index) ==
            IF start # None \/ end # None
            THEN [i \in DOMAIN index |-> bool_index[i] /\ Overlaps(index[i], start, end)]
            ELSE bool_index
    IN  InTime(FilterLoop(FilterLoop(ones, index, query, match_query),
                          index, query, sequence_query))

-----------------------------------------------------------------------------
(* Operations of the bank.  Each returns the outcome of one call: the status *)
(* (ok or the exception raised), the directory, store, cache and clock it    *)
(* leaves, and what it returned and did.                                     *)

Outcome(fs, st, ca, clk) ==
    [status |-> "ok", files |-> fs, store |-> st, cache |-> ca, clock |-> clk,
     index |-> <<>>,        \* the dataframe returned
     stream |-> {},         \* the samples of the stream returned
     parts |-> <<>>,        \* the streams a bulk request concatenates
     picked |-> <<>>,       \* the index rows a bulk request selects, per group
     storeRead |-> FALSE,   \* the call read the index store
     updated |-> FALSE,     \* the call invoked update_index
     appended |-> <<>>]     \* the rows the call appended to the store

\* the outcome of a call that invokes update_index on the bank
Updated(fs, st, ca, clk) ==
    LET Result(u) == [Outcome(fs, u.store, u.cache, u.clock) EXCEPT
                        !.status = u.status, !.updated = TRUE,
                        !.appended = u.appended]
    IN  Result(update_index(fs, st, ca, clk))

\* read_index that validates the times only after the index was built and read
read_index_late_check(fs, st, ca, clk, network, station, location, channel, starttime, endtime, kwargs) ==
    LET bad == starttime # None /\ endtime # None /\ starttime[1] > endtime[1]
        Filtered(u, c) ==
            [u EXCEPT !.cache = c.cache, !.storeRead = c.storeRead,
                      !.index = Select(c.index,
                                       filter_index(c.index, network, station,
                                                    location, channel, None, None))]
        Read(u) ==
            IF u.status # "ok" THEN u
            ELSE IF bad THEN [u EXCEPT !.status = "ValueError"]
            ELSE IF ~ IndexExists(u.store) THEN u
            ELSE Filtered(u, IndexCache(u.cache, u.store, starttime, endtime,
                                        buffer, kwargs))
    IN  Read(IF ~ IndexExists(st) THEN Updated(fs, st, ca, clk)
             ELSE Outcome(fs, st, ca, clk))

\* read_index that hands the times to filter_index as well
read_index_time_filter(fs, st, ca, clk, network, station, location, channel, starttime, endtime, kwargs) ==
    IF starttime # None /\ endtime # None /\ starttime[1] > endtime[1]
    THEN [Outcome(fs, st, ca, clk) EXCEPT !.status = "ValueError"]
    ELSE LET Filtered(u, c) ==
                [u EXCEPT !.cache = c.cache, !.storeRead = c.storeRead,
                          !.index = Select(c.index,
                                           filter_index(c.index, network, station,
                                                        location, channel,
                                                        starttime, endtime))]
             Read(u) ==
                IF u.status # "ok" THEN u
                ELSE IF ~ IndexExists(u.store) THEN u
                ELSE Filtered(u, IndexCache(u.cache, u.store, starttime, endtime,
                                            buffer, kwargs))
         IN  Read(IF ~ IndexExists(st) THEN Updated(fs, st, ca, clk)
                  ELSE Outcome(fs, st, ca, clk))

\* read_index that asks the cache without the extra parameters of the call
\* (line 286)
read_index_drop_kwargs(fs, st, ca, clk, network, station, location, channel, starttime, endtime, kwargs) ==
    IF starttime # None /\ endtime # None /\ starttime[1] > endtime[1]
    THEN [Outcome(fs, st, ca, clk) EXCEPT !.status = "ValueError"]
    ELSE LET Filtered(u, c) ==
                [u EXCEPT !.cache = c.cache, !.storeRead = c.storeRead,
                          !.index = Select(c.index,
                                           filter_index(c.index, network, station,
                                                        location, channel,
                                                        None, None))]
             Read(u) ==
                IF u.status # "ok" THEN u
                ELSE IF ~ IndexExists(u.store) THEN u
                ELSE Filtered(u, IndexCache(u.cache, u.store, starttime, endtime,
                                            buffer, ""))
         IN  Read(IF ~ IndexExists(st) THEN Updated(fs, st, ca, clk)
                  ELSE Outcome(fs, st, ca, clk))

\* read_index
read_index(fs, st, ca, clk, network, station, location, channel, starttime, endtime, kwargs) ==
    IF starttime # None /\ endtime # None /\ starttime[1] > endtime[1]
    THEN [Outcome(fs, st, ca, clk) EXCEPT !.status = "ValueError"]
    ELSE LET Filtered(u, c) ==
                [u EXCEPT !.cache = c.cache, !.storeRead = c.storeRead,
                          !.index = Select(c.index,
                                           filter_index(c.index, network, station,
                                                        location, channel,
                                                        None, None))]
             Read(u) ==
                IF u.status # "ok" THEN u
                ELSE IF ~ IndexExists(u.store) THEN u
                ELSE Filtered(u, IndexCache(u.cache, u.store, starttime, endtime,
                                            buffer, kwargs))
         IN  Read(IF ~ IndexExists(st) THEN Updated(fs, st, ca, clk)
                  ELSE Outcome(fs, st, ca, clk))

\* try_read_stream: the samples of a file, nothing when it cannot be read
try_read_stream(fs, p) ==
    IF p \in Paths /\ fs[p].present /\ fs[p].readable THEN fs[p].samples ELSE {}

\* the seed ids of the rows of an index, as the strings the code concatenates
IndexSeeds(index) ==
    { SeedStr(<<index[i].network, index[i].station,
                index[i].location, index[i].channel>>) : i \in DOMAIN index }

\* `x or default` on an optional time: None and 0 are falsy
OrElse(x, default) == IF x = None \/ x[1] = 0 THEN default ELSE x[1]

\* _polish_stream: trim to [starttime, endtime], defaulting to the extent of
\* the data (merging and sorting do not change the set of samples)
_polish_stream(samples, starttime, endtime) ==
    IF samples = {} THEN {}
    ELSE LET Trim(t1, t2) == { x \in samples : t1 <= x.t /\ x.t <= t2 }
         IN  Trim(OrElse(starttime, Min({ x.t : x \in samples })),
                  OrElse(endtime, Max({ x.t : x \in samples })))

\* (self.bank_path + index.path).unique(): the files _index2stream reads, in
\* the order of their first row
FilesToRead(index) == Unique([i \in DOMAIN index |-> <<bank_path>> \o index[i].path])

\* _index2stream that keeps every trace of the files it read (lines 694-695
\* left out)
_index2stream_keep_all(fs, index, starttime, endtime) ==
    LET Loaded(reads) == UNION { try_read_stream(fs, reads[k]) : k \in DOMAIN reads }
    IN  _polish_stream(Loaded(FilesToRead(index)), starttime, endtime)

\* _index2stream: read each file of the rows once, keep the traces whose id
\* is among the rows' ids, trim
_index2stream(fs, index, starttime, endtime) ==
    LET Loaded(reads) == UNION { try_read_stream(fs, reads[k]) : k \in DOMAIN reads }
        Keep(stt, nslc) == { x \in stt : SeedStr(x.id) \in nslc }
    IN  _polish_stream(Keep(Loaded(FilesToRead(index)), IndexSeeds(index)),
                       starttime, endtime)

\* get_waveforms
get_waveforms(fs, st, ca, clk, network, station, location, channel, starttime, endtime) ==
    LET Load(r) ==
            IF r.status # "ok" THEN r
            ELSE [r EXCEPT !.stream = _index2stream(fs, r.index, starttime, endtime)]
    IN  Load(read_index(fs, st, ca, clk, network, station, location, channel,
                        starttime, endtime, ""))

\* a bulk request: four code strings and two times
Req(net, sta, loc, chan, t1, t2) ==
    [network |-> net, station |-> sta, location |-> loc, channel |-> chan,
     t1 |-> t1, t2 |-> t2]

\* _column_contains on one value: it holds one of the match characters
_column_contains(code, match_chars) == \E i \in DOMAIN code : code[i] \in match_chars

match_chars == {"*", "?", "[", "]"}

\* _get_nslc on one row: None-like codes ("--") become "", then the codes are
\* joined with "."
_get_nslc(row) ==
    LET Clean(code) == IF code = Dashes THEN <<>> ELSE code
    IN  Join(<<Clean(row.network), Clean(row.station),
               Clean(row.location), Clean(row.channel)>>, <<".">>)

\* get_waveforms_bulk._func: the stream of one time group
_func(fs, time, ind, bulk) ==
    LET uses_matches(b) ==
            \E k \in DOMAIN NSLC : _column_contains(b[NSLC[k]], match_chars)
        Mar(df_match) ==
            [k \in DOMAIN df_match |->
                filter_index(ind, Str(df_match[k].network), Str(df_match[k].station),
                             Str(df_match[k].location), Str(df_match[k].channel),
                             None, None)]
        AnyOf(mar, ar) == [i \in DOMAIN ind |-> ar[i] /\ \E k \in DOMAIN mar : mar[k][i]]
        Matches(df_match, ar) ==
            IF df_match # <<>> THEN AnyOf(Mar(df_match), ar) ELSE ar
        IsIn(nslc1, ar) == [i \in DOMAIN ind |-> ar[i] /\ _get_nslc(ind[i]) \in nslc1]
        NoMatches(df_no_match, ar) ==
            IF df_no_match # <<>>
            THEN IsIn({ _get_nslc(df_no_match[k]) : k \in DOMAIN df_no_match }, ar)
            ELSE ar
        Load(rows) == [rows |-> rows,
                       stream |-> _index2stream(fs, rows, Some(time[1]), Some(time[2]))]
        Pick(df) ==
            Load(Select(ind,
                        NoMatches(SelectSeq(df, LAMBDA b : ~ uses_matches(b)),
                                  Matches(SelectSeq(df, uses_matches),
                                          [i \in DOMAIN ind |-> TRUE]))))
    IN  Pick(SelectSeq(bulk, LAMBDA b : b.t1 = time[1] /\ b.t2 = time[2]))

RECURSIVE SortPairs(_)
\* np.unique(..., axis=0): the distinct pairs in lexicographic order
SortPairs(S) ==
    IF S = {} THEN <<>>
    ELSE LET m == CHOOSE x \in S : \A y \in S :
                      x[1] < y[1] \/ (x[1] = y[1] /\ x[2] <= y[2])
         IN  <<m>> \o SortPairs(S \ {m})

\* get_waveforms_bulk (without a given index)
get_waveforms_bulk(fs, st, ca, clk, bulk) ==
    IF bulk = <<>> THEN Outcome(fs, st, ca, clk)
    ELSE LET t1 == Min({ bulk[i].t1 : i \in DOMAIN bulk })
             t2 == Max({ bulk[i].t2 : i \in DOMAIN bulk })
             Streams(ind, unique_times) ==
                [g \in DOMAIN unique_times |-> _func(fs, unique_times[g], ind, bulk)]
             Sum(r, streams) ==
                [r EXCEPT
                    !.parts = [g \in DOMAIN streams |-> streams[g].stream],
                    !.picked = [g \in DOMAIN streams |-> streams[g].rows],
                    !.stream = UNION { streams[g].stream : g \in DOMAIN streams }]
             Groups(r) ==
                IF r.status # "ok" THEN r
                ELSE Sum(r, Streams(r.index,
                                    SortPairs({ <<bulk[i].t1, bulk[i].t2>> :
                                                    i \in DOMAIN bulk })))
         IN  Groups(read_index(fs, st, ca, clk, NoFilter, NoFilter, NoFilter,
                               NoFilter, Some(t1), Some(t2), ""))

-----------------------------------------------------------------------------
(* Queries by seed id, in chunks, and the gap and uptime tables *)

\* _read_index_by_seed: build the index if there is none, read the padded
\* range through the cache and keep the rows whose seed id is requested
_read_index_by_seed(fs, st, ca, clk, seed_id, starttime, endtime) ==
    LET Pick(u, c) ==
            [u EXCEPT !.cache = c.cache, !.storeRead = c.storeRead,
                      !.index = SelectSeq(c.index,
                                          LAMBDA row : IndexSeeds(<<row>>) \subseteq seed_id)]
        Read(u) ==
            IF u.status # "ok" THEN u
            ELSE Pick(u, IndexCache(u.cache, u.store, Some(starttime), Some(endtime),
                                    buffer, ""))
    IN  Read(IF ~ IndexExists(st) THEN Updated(fs, st, ca, clk)
             ELSE Outcome(fs, st, ca, clk))

\* get_waveforms_by_seed
get_waveforms_by_seed(fs, st, ca, clk, seed_id, starttime, endtime) ==
    LET Load(r) ==
            IF r.status # "ok" THEN r
            ELSE [r EXCEPT !.stream = _index2stream(fs, r.index, Some(starttime),
                                                    Some(endtime))]
    IN  Load(_read_index_by_seed(fs, st, ca, clk, seed_id, starttime, endtime))

\* to_timestamp(endtime, "2999-01-01"): a time after every sample of the
\* universe (the year 2999 in milliseconds is beyond the model's integers)
FarFuture == 2000000000

\* to_timestamp(time, default)
to_timestamp(time, default) == IF time = None THEN default ELSE time[1]

RECURSIVE make_time_chunks(_, _, _, _)
\* make_time_chunks: windows of `duration` (+ overlap) from utc1 up to utc2
make_time_chunks(utc1, utc2, duration, overlap) ==
    IF utc1 >= utc2 THEN <<>>
    ELSE LET t2 == IF utc1 + duration + overlap >= utc2
                   THEN utc2 + overlap ELSE utc1 + duration + overlap
         IN  <<<<utc1, t2>>>> \o make_time_chunks(utc1 + duration, utc2, duration, overlap)

\* yield_waveforms: read the index of the whole request, clip the times to
\* the extent of its rows, and assemble one stream per chunk that has rows.
\* The min and max of an empty index are NaN and leave the times as given;
\* no chunk of an empty index has rows.
yield_waveforms(fs, st, ca, clk, network, station, location, channel, start, end, duration, overlap) ==
    LET starttime == to_timestamp(start, 0)
        endtime == to_timestamp(end, FarFuture)
        InChunk(index, t1, t2) ==
            SelectSeq(index, LAMBDA row : ~ (   row.starttime - buffer > t2
                                             \/ row.endtime + buffer < t1))
        Yielded(index, chunks) ==
            [k \in DOMAIN chunks |->
                _index2stream(fs, InChunk(index, chunks[k][1], chunks[k][2]),
                              Some(chunks[k][1]), Some(chunks[k][2]))]
        WithRows(index, chunks) ==
            SelectSeq(chunks, LAMBDA ch : InChunk(index, ch[1], ch[2]) # <<>>)
        Chunks(index) ==
            make_time_chunks(
                Max({starttime, Min({ index[i].starttime : i \in DOMAIN index })}),
                Min({endtime, Max({ index[i].endtime : i \in DOMAIN index })}),
                duration, IF overlap = None THEN 0 ELSE overlap[1])
        Loop(r) ==
            IF r.status # "ok" \/ r.index = <<>> THEN r
            ELSE [r EXCEPT !.parts = Yielded(r.index, WithRows(r.index, Chunks(r.index)))]
    IN  Loop(read_index(fs, st, ca, clk, network, station, location, channel,
                        Some(starttime), Some(endtime), ""))

\* the characters of the codes in the order of their code points
CodeChars == <<"'", "*", "-", ".", "0", "1", "?", "A", "B", "C", "H", "U", "X", "Y",
               "Z", "[", "]", "b", "n">>

Rank(ch) == CHOOSE i \in DOMAIN CodeChars : CodeChars[i] = ch

RECURSIVE StrLeq(_, _)
\* a <= b on strings
StrLeq(a, b) ==
    IF a = <<>> THEN TRUE
    ELSE IF b = <<>> THEN FALSE
    ELSE IF Head(a) # Head(b) THEN Rank(Head(a)) < Rank(Head(b))
    ELSE StrLeq(Tail(a), Tail(b))

RECURSIVE KeyLeq(_, _)
\* a <= b on tuples of strings
KeyLeq(a, b) ==
    IF a = <<>> THEN TRUE
    ELSE IF Head(a) # Head(b) THEN StrLeq(Head(a), Head(b))
    ELSE KeyLeq(Tail(a), Tail(b))

\* the (network, station, location, channel) of a row
RowKey(row) == <<row.network, row.station, row.location, row.channel>>

RECURSIVE SortKeys(_)
SortKeys(S) ==
    IF S = {} THEN <<>>
    ELSE LET Rest(k) == <<k>> \o SortKeys(S \ {k})
         IN  Rest(CHOOSE k \in S : \A j \in S : KeyLeq(k, j))

\* index.groupby(list(NSLC)): the keys in sorted order
GroupKeys(index) == SortKeys({ RowKey(index[i]) : i \in DOMAIN index })

\* the rows of one group, in the order of the index
Group(index, key) == SelectSeq(index, LAMBDA row : RowKey(row) = key)

RECURSIVE SortRows(_)
\* df.sort_values(["starttime", "endtime"]).reset_index(drop=True)
SortRows(df) ==
    IF df = <<>> THEN <<>>
    ELSE LET Before(a, b) == a.starttime < b.starttime
                             \/ (a.starttime = b.starttime /\ a.endtime <= b.endtime)
             Without(i) == [k \in 1 .. (Len(df) - 1) |-> IF k < i THEN df[k] ELSE df[k + 1]]
             First(i) == <<df[i]>> \o SortRows(Without(i))
         IN  First(CHOOSE i \in DOMAIN df :
                      /\ \A j \in DOMAIN df : Before(df[i], df[j])
                      /\ \A j \in 1 .. (i - 1) : ~ Before(df[j], df[i]))

\* _get_gap_dfs that compares the rows in stored order, without sorting them
_get_gap_dfs_unsorted(df, min_gap) ==
    LET Gaps(dd) ==
            LET gap_index == SelectSeq([k \in 1 .. (Len(dd) - 1) |-> k],
                                       LAMBDA k : dd[k].endtime + min_gap < dd[k + 1].starttime)
            IN  [g \in DOMAIN gap_index |->
                    [network |-> dd[gap_index[g]].network,
                     station |-> dd[gap_index[g]].station,
                     location |-> dd[gap_index[g]].location,
                     channel |-> dd[gap_index[g]].channel,
                     starttime |-> dd[gap_index[g]].endtime,
                     endtime |-> dd[gap_index[g] + 1].starttime,
                     gap_duration |-> dd[gap_index[g] + 1].starttime
                                        - dd[gap_index[g]].endtime]]
    IN  Gaps(df)

\* _get_gap_dfs: the gaps of one seed id, where a row ends more than min_gap
\* before the next row (by starttime, endtime) starts
_get_gap_dfs(df, min_gap) ==
    LET Gaps(dd) ==
            LET gap_index == SelectSeq([k \in 1 .. (Len(dd) - 1) |-> k],
                                       LAMBDA k : dd[k].endtime + min_gap < dd[k + 1].starttime)
            IN  [g \in DOMAIN gap_index |->
                    [network |-> dd[gap_index[g]].network,
                     station |-> dd[gap_index[g]].station,
                     location |-> dd[gap_index[g]].location,
                     channel |-> dd[gap_index[g]].channel,
                     starttime |-> dd[gap_index[g]].endtime,
                     endtime |-> dd[gap_index[g] + 1].starttime,
                     gap_duration |-> dd[gap_index[g] + 1].starttime
                                        - dd[gap_index[g]].endtime]]
    IN  Gaps(SortRows(df))

\* get_gaps_df: the gaps of every seed id of the rows read_index returns
get_gaps_df(fs, st, ca, clk, network, station, location, channel, starttime, endtime, min_gap) ==
    LET Apply(index, group) ==
            Flatten([g \in DOMAIN group |-> _get_gap_dfs(Group(index, group[g]), min_gap)])
        Out(r) ==
            IF r.status # "ok" THEN r
            ELSE [r EXCEPT !.index = Apply(r.index, GroupKeys(r.index))]
    IN  Out(read_index(fs, st, ca, clk, network, station, location, channel,
                       starttime, endtime, "no_path"))

\* get_availability_df: the first starttime and last endtime of every seed id
get_availability_df(fs, st, ca, clk, network, station, location, channel, starttime, endtime) ==
    LET Extent(key, rows) ==
            [network |-> key[1], station |-> key[2], location |-> key[3],
             channel |-> key[4],
             starttime |-> Min({ rows[i].starttime : i \in DOMAIN rows }),
             endtime |-> Max({ rows[i].endtime : i \in DOMAIN rows })]
        Merge(index, gro) ==
            [g \in DOMAIN gro |-> Extent(gro[g], Group(index, gro[g]))]
        Out(r) ==
            IF r.status # "ok" THEN r
            ELSE [r EXCEPT !.index = Merge(r.index, GroupKeys(r.index))]
    IN  Out(read_index(fs, st, ca, clk, network, station, location, channel,
                       starttime, endtime, "no_path"))

RECURSIVE SumSeq(_)
SumSeq(s) == IF s = <<>> THEN 0 ELSE Head(s) + SumSeq(Tail(s))

\* get_uptime_df: the availability table joined on the seed id with the total
\* gap duration per seed id (of the seed ids that have gaps, or 0 for every
\* seed id when there is no gap at all); availability is uptime / duration,
\* kept as the pair <<uptime, duration>>
get_uptime_df(fs, st, ca, clk, network, station, location, channel, starttime, endtime) ==
    LET GapTotal(gaps_df, key) ==
            SumSeq([k \in DOMAIN Group(gaps_df, key) |->
                        Group(gaps_df, key)[k].gap_duration])
        Line(row, gap_duration) ==
            [network |-> row.network, station |-> row.station,
             location |-> row.location, channel |-> row.channel,
             starttime |-> row.starttime, endtime |-> row.endtime,
             duration |-> row.endtime - row.starttime,
             gap_duration |-> gap_duration,
             uptime |-> (row.endtime - row.starttime) - gap_duration,
             availability |-> <<(row.endtime - row.starttime) - gap_duration,
                                row.endtime - row.starttime>>]
        Joined(avail, gaps_df) ==
            IF gaps_df # <<>>
            THEN LET kept == SelectSeq(avail, LAMBDA row : Group(gaps_df, RowKey(row)) # <<>>)
                 IN  [i \in DOMAIN kept |-> Line(kept[i], GapTotal(gaps_df, RowKey(kept[i])))]
            ELSE [i \in DOMAIN avail |-> Line(avail[i], 0)]
        Both(a, g) ==
            IF g.status # "ok" THEN g
            ELSE [g EXCEPT !.index = Joined(a.index, g.index),
                           !.updated = a.updated \/ g.updated,
                           !.storeRead = a.storeRead \/ g.storeRead,
                           !.appended = a.appended \o g.appended]
        Gaps(a) ==
            IF a.status # "ok" THEN a
            ELSE Both(a, get_gaps_df(a.files, a.store, a.cache, a.clock, network,
                                     station, location, channel, starttime, endtime, 1000))
    IN  Gaps(get_availability_df(fs, st, ca, clk, network, station, location,
                                 channel, starttime, endtime))

-----------------------------------------------------------------------------
(* The write path *)

RECURSIVE MergeTraces(_, _)
\* Stream.merge(method=1) of the traces of one group, in stream order
MergeTraces(traces, pref) ==
    IF traces = <<>> THEN {}
    ELSE MergeSamples(TraceSamples(traces[Len(traces)]),
                      MergeTraces(SubSeq(traces, 1, Len(traces) - 1), pref), pref)

RECURSIVE WriteGroups(_, _, _, _, _, _)
RECURSIVE WriteGroups_overwrite(_, _, _, _, _, _)
\* the loop over st_dic without the read of the file that is already there
WriteGroups_overwrite(fs, clk, paths, stream, name, pref) ==
    IF paths = <<>> THEN [status |-> "ok", files |-> fs, clock |-> clk]
    ELSE LET path == Head(paths)
             tr_list == SelectSeq(stream, LAMBDA tr : TracePath(tr, name) = path)
             written == [present |-> TRUE, samples |-> MergeTraces(tr_list, pref),
                         mtime |-> clk + 1, readable |-> TRUE]
         IN  WriteGroups([fs EXCEPT ![path] = written], clk + 1,
                         Tail(paths), stream, name, pref)

\* the loop over st_dic of put_waveforms: per destination, combine the
\* group with the file that is already there, merge and write
WriteGroups(fs, clk, paths, stream, name, pref) ==
    IF paths = <<>> THEN [status |-> "ok", files |-> fs, clock |-> clk]
    ELSE LET path == Head(paths)
             tr_list == SelectSeq(stream, LAMBDA tr : TracePath(tr, name) = path)
             st_existing == IF Exists(fs, path) THEN fs[path].samples ELSE {}
             Written(merged) == [present |-> TRUE, samples |-> merged,
                                 mtime |-> clk + 1, readable |-> TRUE]
         IN  IF Exists(fs, path) /\ ~ fs[path].readable
             THEN [status |-> "TypeError", files |-> fs, clock |-> clk]
             ELSE WriteGroups([fs EXCEPT ![path] =
                                  Written(MergeSamples(MergeTraces(tr_list, pref),
                                                       st_existing, pref))],
                              clk + 1, Tail(paths), stream, name, pref)

\* put_waveforms that updates the index before it writes the files
put_waveforms_update_first(fs, st, ca, clk, stream, name, pref) ==
    LET Finish(u, w) ==
            [Outcome(w.files, u.store, u.cache, w.clock) EXCEPT
                !.status = w.status, !.updated = u.updated, !.appended = u.appended]
        Write(st_dic, u) ==
            Finish(u, WriteGroups(fs, u.clock, st_dic, stream, name, pref))
        Update(st_dic) ==
            Write(st_dic, IF st_dic # <<>> THEN Updated(fs, st, ca, clk)
                          ELSE Outcome(fs, st, ca, clk))
    IN  Update(Unique([i \in DOMAIN stream |-> TracePath(stream[i], name)]))

\* put_waveforms
put_waveforms(fs, st, ca, clk, stream, name, pref) ==
    LET Finish(st_dic, w) ==
            IF w.status # "ok"
            THEN [Outcome(w.files, st, ca, w.clock) EXCEPT !.status = w.status]
            ELSE IF st_dic # <<>> THEN Updated(w.files, st, ca, w.clock)
            ELSE Outcome(w.files, st, ca, w.clock)
        Write(st_dic) == Finish(st_dic, WriteGroups(fs, clk, st_dic, stream, name, pref))
    IN  Write(Unique([i \in DOMAIN stream |-> TracePath(stream[i], name)]))

-----------------------------------------------------------------------------
(* Inputs of the operations *)

\* (starttime, endtime) of a query
Windows == { <<None, Some(2 * delta)>>, <<Some(3 * delta), Some(4 * delta)>>,
             <<Some(3 * delta), Some(delta)>> }

\* (network, station, location, channel) of a query
Filters == << <<NoFilter, NoFilter, NoFilter, NoFilter>>,
             <<Str(UU), Str(A1), Str(NoLoc), Str(HHZ)>>,
             <<Str(UU), Str(Ab), Str(NoLoc), Str(HHZ)>>,
             <<Str(UU), Str(<<"A", "*">>), OneOf({L01, <<"*">>}), NoFilter>> >>

\* the exact codes of the traces of the universe
Exact == << <<Str(UU), Str(A1), Str(NoLoc), Str(HHZ)>>,
           <<Str(UU), Str(Ab), Str(NoLoc), Str(HHZ)>>,
           <<Str(UU), Str(A1), Str(L01), Str(HHZ)>> >>

\* the requests of a bulk query
ReqA1 == Req(UU, A1, NoLoc, HHZ, delta, 2 * delta)
ReqDashes == Req(UU, A1, Dashes, HHZ, delta, 2 * delta)
ReqWild == Req(UU, <<"A", "?">>, <<"*">>, HHZ, delta, 2 * delta)
ReqL01 == Req(UU, A1, L01, HHZ, delta, 2 * delta)
ReqLate == Req(UU, A1, NoLoc, HHZ, 3 * delta, 4 * delta)

\* the bulk arguments: none, one request, two requests of one time group,
\* two requests of two time groups
Bulks == { <<>>, <<ReqA1>>, <<ReqDashes>>, <<ReqWild>>, <<ReqL01>>, <<ReqLate>>,
           <<ReqWild, ReqL01>>, <<ReqL01, ReqWild>>, <<ReqLate, ReqA1>> }

-----------------------------------------------------------------------------
(* The state machine *)

\* the record of a call: its name, inputs and outcome, and what the directory
\* and the store held when it started
Call(op, args, out) ==
    [op |-> op, args |-> args,
     pre |-> [files |-> files, rows |-> store.rows, exists |-> store.exists],
     status |-> out.status, index |-> out.index, stream |-> out.stream,
     parts |-> out.parts, picked |-> out.picked, storeRead |-> out.storeRead,
     updated |-> out.updated, appended |-> out.appended]

\* the state the call leaves
Leaves(out) ==
    /\ files' = out.files
    /\ store' = out.store
    /\ cache' = out.cache
    /\ clock' = out.clock

\* one call of operation op with inputs args and outcome out
Step(op, args, out) ==
    /\ Leaves(out)
    /\ last' = Call(op, args, out)
    /\ UNCHANGED <<lock, callers>>

\* the threads that call update_index
Callers == 1 .. MaxCallers

\* a thread that is not in update_index
Idle == [pc |-> "idle", updates |-> <<>>, nrows |-> 0, key |-> <<>>, index |-> <<>>]

Init ==
    /\ files = [p \in Paths |-> NoFile]
    /\ store = NoStore
    /\ cache = <<>>
    /\ clock = 0
    /\ nwrites = 0
    /\ lock = 0
    /\ callers = [c \in Callers |-> Idle]
    /\ last = [op |-> "init", args |-> <<>>,
               pre |-> [files |-> [p \in Paths |-> NoFile], rows |-> <<>>,
                        exists |-> FALSE],
               status |-> "ok", index |-> <<>>, stream |-> {}, parts |-> <<>>,
               picked |-> <<>>, storeRead |-> FALSE, updated |-> FALSE,
               appended |-> <<>>]

\* someone copies a file into the base directory: a waveform file holding one
\* trace, or a file that is no waveform file
DropFile ==
    /\ nwrites < MaxWrites
    /\ \E p \in {JunkPath, TracePath(T1, None)} :
          /\ ~ files[p].present
          /\ LET made == IF p = JunkPath
                         THEN [present |-> TRUE, samples |-> {}, mtime |-> clock + 1,
                               readable |-> FALSE]
                         ELSE [present |-> TRUE, samples |-> TraceSamples(T1),
                               mtime |-> clock + 1, readable |-> TRUE]
             IN  Step("drop_file", <<p>>,
                      Outcome([files EXCEPT ![p] = made], store, cache, clock + 1))
    /\ nwrites' = nwrites + 1

UpdateIndex ==
    /\ Step("update_index",
            [again |-> last.op = "update_index", hadCache |-> cache # <<>>],
            Updated(files, store, cache, clock))
    /\ UNCHANGED nwrites

\* a call of put_waveforms with one of the given streams
PutOneOf(puts, prefs) ==
    /\ \E pt \in puts, pref \in prefs :
          /\ pt.stream # <<>> => nwrites < MaxWrites
          /\ Step("put_waveforms",
                  [stream |-> pt.stream, name |-> pt.name, hadCache |-> cache # <<>>],
                  put_waveforms(files, store, cache, clock, pt.stream, pt.name, pref))
          /\ nwrites' = IF pt.stream # <<>> THEN nwrites + 1 ELSE nwrites

PutWaveforms == PutOneOf(Puts, {"new", "old"})

ReadIndex ==
    /\ \E fi \in DOMAIN Filters, w \in Windows, kwargs \in {""} :
          LET f == Filters[fi]
          IN  Step("read_index",
                   [filter |-> f, starttime |-> w[1], endtime |-> w[2],
                    kwargs |-> kwargs],
                   read_index(files, store, cache, clock, f[1], f[2], f[3], f[4],
                              w[1], w[2], kwargs))
    /\ UNCHANGED nwrites

GetWaveforms ==
    /\ \E fi \in DOMAIN Exact, w \in Windows :
          LET f == Exact[fi]
          IN  Step("get_waveforms",
                   [filter |-> f, starttime |-> w[1], endtime |-> w[2]],
                   get_waveforms(files, store, cache, clock, f[1], f[2], f[3], f[4],
                                 w[1], w[2]))
    /\ UNCHANGED nwrites

GetWaveformsBulk ==
    /\ \E bulk \in Bulks :
          Step("get_waveforms_bulk", [bulk |-> bulk],
               get_waveforms_bulk(files, store, cache, clock, bulk))
    /\ UNCHANGED nwrites

Next ==
    \/ DropFile
    \/ UpdateIndex
    \/ PutWaveforms
    \/ ReadIndex
    \/ GetWaveforms

Spec == Init /\ [][Next]_vars

NextBulk ==
    \/ DropFile
    \/ PutWaveforms
    \/ GetWaveformsBulk

SpecBulk == Init /\ [][NextBulk]_vars

\* the seed ids of a query by seed id
Seeds == << { SeedStr(<<UU, A1, NoLoc, HHZ>>) },
            { SeedStr(<<UU, A1, NoLoc, HHZ>>), SeedStr(<<UU, Ab, NoLoc, HHZ>>) } >>

\* the (starttime, endtime) of a query by seed id
SeedWindows == { <<delta, 2 * delta>>, <<3 * delta, 4 * delta>> }

\* the (starttime, endtime) of a query in chunks
YieldWindows == { <<None, None>>, <<Some(delta), Some(4 * delta)>> }

GetWaveformsBySeed ==
    /\ \E si \in DOMAIN Seeds, w \in SeedWindows :
          Step("get_waveforms_by_seed",
               [seed_id |-> Seeds[si], starttime |-> w[1], endtime |-> w[2]],
               get_waveforms_by_seed(files, store, cache, clock, Seeds[si], w[1], w[2]))
    /\ UNCHANGED nwrites

YieldWaveforms ==
    /\ \E fi \in {1, 2}, w \in YieldWindows :
          LET f == Filters[fi]
          IN  Step("yield_waveforms",
                   [filter |-> f, starttime |-> w[1], endtime |-> w[2],
                    duration |-> 2 * delta],
                   yield_waveforms(files, store, cache, clock, f[1], f[2], f[3], f[4],
                                   w[1], w[2], 2 * delta, None))
    /\ UNCHANGED nwrites

GetGapsDf ==
    /\ \E fi \in {1, 2}, min_gap \in {0, 1000} :
          LET f == Filters[fi]
          IN  Step("get_gaps_df", [filter |-> f, min_gap |-> min_gap],
                   get_gaps_df(files, store, cache, clock, f[1], f[2], f[3], f[4],
                               None, None, min_gap))
    /\ UNCHANGED nwrites

GetUptimeDf ==
    /\ \E fi \in {1, 2} :
          LET f == Filters[fi]
          IN  Step("get_uptime_df", [filter |-> f],
                   get_uptime_df(files, store, cache, clock, f[1], f[2], f[3], f[4],
                                 None, None))
    /\ UNCHANGED nwrites

NextAvail ==
    \/ DropFile
    \/ PutWaveforms
    \/ GetWaveformsBySeed
    \/ YieldWaveforms
    \/ GetGapsDf
    \/ GetUptimeDf

SpecAvail == Init /\ [][NextAvail]_vars

\* someone copies the file of a recording into the base directory
\* one of the given recordings is copied into the bank directory
DropOneOf(recordings) ==
    /\ \E tr \in recordings :
          /\ ~ files[TracePath(tr, None)].present
          /\ Step("drop_file", <<TracePath(tr, None)>>,
                  Outcome([files EXCEPT ![TracePath(tr, None)] =
                              [present |-> TRUE, samples |-> TraceSamples(tr),
                               mtime |-> clock + 1, readable |-> TRUE]],
                          store, cache, clock + 1))
    /\ UNCHANGED nwrites

DropRecording == DropOneOf(Recordings)

NextGaps ==
    \/ DropRecording
    \/ UpdateIndex
    \/ GetGapsDf
    \/ GetUptimeDf

SpecGaps == Init /\ [][NextGaps]_vars

DropOverlapping == DropOneOf(Overlapping)

NextOverlap ==
    \/ DropOverlapping
    \/ UpdateIndex
    \/ GetGapsDf
    \/ GetUptimeDf

SpecOverlap == Init /\ [][NextOverlap]_vars

-----------------------------------------------------------------------------
(* filter_index on its own: the inputs are drawn at the start and the one    *)
(* action applies the function to them                                       *)

\* an index row as read_index hands it to filter_index
Row(sta, loc, t1, t2) ==
    [network |-> UU, station |-> sta, location |-> loc, channel |-> HHZ,
     starttime |-> t1, endtime |-> t2, path |-> <<>>]

ABC == <<"A", "B", "C">>
BXY == <<"B", "X", "Y">>

FilterRows == { Row(A1, NoLoc, delta, 2 * delta), Row(Ab, NoLoc, delta, 2 * delta),
                Row(A1, L01, delta, 2 * delta), Row(Ab, L01, delta, 2 * delta),
                Row(A1, NoLoc, 3 * delta, 4 * delta),
                Row(ABC, NoLoc, delta, 2 * delta), Row(BXY, NoLoc, delta, 2 * delta) }

FilterIndexes == UNION { [1 .. n -> FilterRows] : n \in 0 .. MaxRows }

NetFilters == << NoFilter, Str(UU) >>
StaFilters == << NoFilter, Str(A1), Str(<<"A", "*">>), Str(<<"A", "?">>),
                 Str(<<"*", "1">>), OneOf({A1}), OneOf({<<"A", "*">>, Ab}) >>
LocFilters == << NoFilter, Str(NoLoc), Str(<<"*">>), OneOf({L01}) >>
ChanFilters == << NoFilter, Str(<<"H", "H", "[", "Z", "N", "]">>) >>
TimeFilters == << <<None, None>>, <<Some(3 * delta), None>>, <<None, Some(2 * delta)>> >>

FilterArgs(index, n, s, l, c, t) ==
    [index |-> index, net |-> NetFilters[n], sta |-> StaFilters[s],
     loc |-> LocFilters[l], chan |-> ChanFilters[c],
     start |-> TimeFilters[t][1], end |-> TimeFilters[t][2]]

InitFilter ==
    /\ files = [p \in Paths |-> NoFile]
    /\ store = NoStore
    /\ cache = <<>>
    /\ clock = 0
    /\ nwrites = 0
    /\ lock = 0
    /\ callers = [c \in Callers |-> Idle]
    /\ \E index \in FilterIndexes, n \in DOMAIN NetFilters, s \in DOMAIN StaFilters,
          l \in DOMAIN LocFilters, c \in DOMAIN ChanFilters, t \in DOMAIN TimeFilters :
            last = [op |-> "input", args |-> FilterArgs(index, n, s, l, c, t),
                    mask |-> <<>>]

FilterIndex ==
    /\ last.op = "input"
    /\ last' = [op |-> "filter_index", args |-> last.args,
                mask |-> filter_index(last.args.index, last.args.net, last.args.sta,
                                      last.args.loc, last.args.chan,
                                      last.args.start, last.args.end)]
    /\ UNCHANGED <<files, store, cache, clock, nwrites, lock, callers>>

NextFilter == FilterIndex

SpecFilter == InitFilter /\ [][NextFilter]_vars

\* the summaries handed to _write_update: of a sound segment, of a second
\* one, of a segment that ends before it starts, of one without start time
\* and of one without network code
Summary(net, t0, t1) ==
    [network |-> net, station |-> A1, location |-> NoLoc, channel |-> HHZ,
     starttime |-> t0, endtime |-> t1, path |-> TracePath(T1, None)]

BatchRows ==
    { Summary(UU, 0, delta), Summary(UU, 2 * delta, 3 * delta),
      Summary(UU, 2 * delta, delta), Summary(UU, NaN, delta),
      Summary(PyNone, 0, delta) }

Batches == UNION { [1 .. n -> BatchRows] : n \in 1 .. 2 }

\* one append of a batch of summaries to the index store
WriteUpdate ==
    /\ Len(store.rows) <= MaxRows
    /\ \E updates \in Batches :
          LET Wrote(w) == [Outcome(files, w.store, cache, w.clock) EXCEPT
                             !.status = w.status, !.appended = w.appended]
          IN  Step("_write_update", [updates |-> updates],
                   Wrote(_write_update(updates, store, clock)))
    /\ UNCHANGED nwrites

NextAppend == WriteUpdate

SpecAppend == Init /\ [][NextAppend]_vars

\* thread_lock_function, left out: every caller may enter at once
thread_lock_none(lk, c) == TRUE

\* @thread_lock_function() of update_index: caller c may enter when no other
\* caller holds the lock
thread_lock_function(lk, c) == lk = 0

\* a thread calls update_index and waits for the lock
CallUpdate(c) ==
    /\ callers[c].pc = "idle"
    /\ callers' = [callers EXCEPT ![c].pc = "wait"]
    /\ UNCHANGED <<files, store, cache, clock, nwrites, last, lock>>

\* the thread takes the lock and enters update_index
Acquire(c) ==
    /\ callers[c].pc = "wait"
    /\ thread_lock_function(lock, c)
    /\ lock' = c
    /\ callers' = [callers EXCEPT ![c].pc = "scan"]
    /\ UNCHANGED <<files, store, cache, clock, nwrites, last>>

\* the loop over the unindexed files (lines 195-203); with no file the call
\* returns and gives the lock back
Scan(c) ==
    /\ callers[c].pc = "scan"
    /\ LET Summaries(pending) ==
               [i \in DOMAIN pending |-> summarize_wave_file(files, pending[i])]
           Scanned(updates) ==
               IF Len(updates) > 0
               THEN /\ callers' = [callers EXCEPT ![c].pc = "count",
                                                   ![c].updates = Flatten(updates)]
                    /\ UNCHANGED lock
               ELSE /\ callers' = [callers EXCEPT ![c] = Idle]
                    /\ lock' = 0
       IN  Scanned(Summaries(unindexed_files(files, store)))
    /\ UNCHANGED <<files, store, cache, clock, nwrites, last>>

\* _write_update reads the row count of the index node (line 226)
Count(c) ==
    /\ callers[c].pc = "count"
    /\ callers' = [callers EXCEPT ![c].pc = "append", ![c].nrows = StoredRows(store)]
    /\ UNCHANGED <<files, store, cache, clock, nwrites, last, lock>>

\* _write_update appends the batch at the offset it read and stamps the
\* store; update_index clears the cache and returns, giving the lock back
AppendBatch(c) ==
    /\ callers[c].pc = "append"
    /\ LET Wrote(w) ==
               /\ store' = w.store
               /\ clock' = w.clock
               /\ cache' = IF w.status = "ok" THEN clear_cache(cache) ELSE cache
       IN  Wrote(_write_update_at(callers[c].updates, store, clock, callers[c].nrows))
    /\ callers' = [callers EXCEPT ![c] = Idle]
    /\ lock' = 0
    /\ UNCHANGED <<files, nwrites, last>>

NextLock ==
    \/ DropRecording
    \/ \E c \in Callers : CallUpdate(c)
    \/ \E c \in Callers : Acquire(c)
    \/ \E c \in Callers : Scan(c)
    \/ \E c \in Callers : Count(c)
    \/ \E c \in Callers : AppendBatch(c)

SpecLock == Init /\ [][NextLock]_vars

\* the windows and the extra parameters of the reads that go through the cache
CacheWindows == { <<None, None>>, <<None, Some(2 * delta)>>,
                  <<Some(3 * delta), Some(4 * delta)>> }

CacheKwargs == {"", "no_path"}

\* read_index, recording whether the cache was full when the call was made
ReadIndexCached ==
    /\ \E fi \in {1, 2}, w \in CacheWindows, kwargs \in CacheKwargs :
          LET f == Filters[fi]
          IN  Step("read_index",
                   [filter |-> f, starttime |-> w[1], endtime |-> w[2],
                    kwargs |-> kwargs, full |-> Len(cache) = cache_size],
                   read_index(files, store, cache, clock, f[1], f[2], f[3], f[4],
                              w[1], w[2], kwargs))
    /\ UNCHANGED nwrites

NextCache ==
    \/ DropFile
    \/ UpdateIndex
    \/ ReadIndexCached

SpecCache == Init /\ [][NextCache]_vars

\* a waveform file of the bank is removed from the directory
RemoveFile ==
    /\ \E p \in Paths :
          /\ files[p].present
          /\ Step("remove_file", <<p>>,
                  Outcome([files EXCEPT ![p] = NoFile], store, cache, clock))
    /\ UNCHANGED nwrites

\* put_waveforms of a stream with two channels for one file, or of a stream
\* for two files
PutChannels ==
    PutOneOf({ pt \in Puts : pt.stream \in { <<T2, T5>>, <<T3, T4>> } }, {"new"})

NextAssemble ==
    \/ PutChannels
    \/ RemoveFile
    \/ GetWaveforms

SpecAssemble == Init /\ [][NextAssemble]_vars

\* update_index with a progress hook
UpdateIndexBar ==
    /\ \E bar \in Bars :
          LET Result(u) == [Outcome(files, u.store, u.cache, u.clock) EXCEPT
                              !.status = u.status, !.updated = TRUE,
                              !.appended = u.appended]
          IN  Step("update_index", [bar |-> bar],
                   Result(update_index_bar(files, store, cache, clock, bar)))
    /\ UNCHANGED nwrites

NextHook ==
    \/ DropFile
    \/ PutChannels
    \/ UpdateIndexBar

SpecHook == Init /\ [][NextHook]_vars

\* _IndexCache.__call__ on a miss, second half: keep the rows read under the
\* key, the oldest entry leaving beyond the capacity
cache_insert(ca, key, index) ==
    LET Keep(added) == IF Len(added) > cache_size THEN Tail(added) ELSE added
    IN  Keep(Append(ca, [key |-> key, index |-> index]))

\* a thread calls read_index on a bank with an index (lines 276-286): the key
\* is not in the cache and the thread reads the padded range from the store
ReadStore(c) ==
    /\ callers[c].pc = "idle"
    /\ IndexExists(store)
    /\ \E w \in {<<None, Some(20 * delta)>>} :
          /\ ~ \E i \in DOMAIN cache : cache[i].key = CacheKey(w[1], w[2], buffer, "")
          /\ callers' = [callers EXCEPT
                            ![c].pc = "insert",
                            ![c].key = CacheKey(w[1], w[2], buffer, ""),
                            ![c].index = read_range(store, None,
                                                    IF w[2] = None THEN None
                                                    ELSE Some(w[2][1] + buffer), "")]
    /\ UNCHANGED <<files, store, cache, clock, nwrites, last, lock>>

\* the thread keeps the rows it read in the cache and read_index returns
ReadInsert(c) ==
    /\ callers[c].pc = "insert"
    /\ cache' = cache_insert(cache, callers[c].key, callers[c].index)
    /\ callers' = [callers EXCEPT ![c] = Idle]
    /\ UNCHANGED <<files, store, clock, nwrites, last, lock>>

NextRace ==
    \/ DropRecording
    \/ \E c \in Callers : CallUpdate(c)
    \/ \E c \in Callers : Acquire(c)
    \/ \E c \in Callers : Scan(c)
    \/ \E c \in Callers : Count(c)
    \/ \E c \in Callers : AppendBatch(c)
    \/ \E c \in Callers : ReadStore(c)
    \/ \E c \in Callers : ReadInsert(c)

SpecRace == Init /\ [][NextRace]_vars

-----------------------------------------------------------------------------
(* Properties of the index update and of read_index, under Spec *)

\* the times of the last query
QStart == last.args.starttime
QEnd == last.args.endtime

\* C1: an update_index call that directly follows another update_index call,
\* with no file created or modified in between, appends nothing: the rows of
\* the store are the same before and after it
C1_UpdateIdempotent ==
    (last.op = "update_index" /\ last.args.again)
        => (last.appended = <<>> /\ store.rows = last.pre.rows)

C1_Witness ==
    /\ last.op = "update_index" /\ last.args.again /\ last.status = "ok"
    /\ store.rows # <<>>
    /\ store.rows = last.pre.rows

\* the store read the cache does for a key
FreshRead(key) ==
    read_range(store,
               IF key[1] = None THEN None ELSE Some(key[1][1] - key[3]),
               IF key[2] = None THEN None ELSE Some(key[2][1] + key[3]),
               key[4])

\* C2: when update_index (alone or inside put_waveforms) has appended rows the
\* cache is empty when it returns, and no cache entry ever differs from what
\* a store read of its range returns now, so a later read_index of a range
\* cached before the append reads the store and sees the appended rows
C2_CacheClearedOnAppend ==
    /\ (last.op \in {"update_index", "put_waveforms"} /\ last.appended # <<>>)
            => cache = <<>>
    /\ \A i \in DOMAIN cache : cache[i].index = FreshRead(cache[i].key)

C2_Witness ==
    /\ last.op = "put_waveforms" /\ last.appended # <<>>
    /\ last.args.hadCache
    /\ cache = <<>>

\* the new samples put_waveforms routes to path p
Routed(stream, name, p) ==
    UNION { TraceSamples(stream[k]) :
                k \in { j \in DOMAIN stream : TracePath(stream[j], name) = p } }

Covers(samples, s) == \E x \in samples : x.id = s.id /\ x.t = s.t

\* C6: after put_waveforms every file that existed before still exists and
\* holds every (channel, time) it held before, a file that was written holds
\* the new data as well, and nothing but old and new samples
C6_NoDataLossOnWrite ==
    last.op = "put_waveforms" =>
        \A p \in Paths :
            LET old == last.pre.files[p]
                new == Routed(last.args.stream, last.args.name, p)
            IN  /\ old.present =>
                    /\ files[p].present
                    /\ \A s \in old.samples : Covers(files[p].samples, s)
                /\ last.status = "ok" =>
                    /\ \A s \in new : Covers(files[p].samples, s)
                    /\ files[p].samples \subseteq (old.samples \cup new)

C6_Witness ==
    /\ last.op = "put_waveforms" /\ last.status = "ok"
    /\ \E p \in Paths :
          /\ last.pre.files[p].present
          /\ files[p].mtime > last.pre.files[p].mtime
          /\ \E s \in last.pre.files[p].samples :
                /\ ~ Covers(Routed(last.args.stream, last.args.name, p), s)
                /\ s \in files[p].samples

\* the last call is a query whose starttime is after its endtime
BadTimes(call) ==
    /\ call.op \in {"read_index", "get_waveforms"}
    /\ call.args.starttime # None /\ call.args.endtime # None
    /\ call.args.starttime[1] > call.args.endtime[1]

\* C7: read_index and get_waveforms with starttime > endtime raise ValueError
\* without invoking update_index or reading the store, and leave the
\* directory, the store (with last_updated) and the cache as they were
C7_ValidationBeforeStore ==
    [][ BadTimes(last') =>
            /\ last'.status = "ValueError"
            /\ ~ last'.updated /\ ~ last'.storeRead
            /\ UNCHANGED <<files, store, cache, clock>> ]_vars

C7_Witness ==
    /\ BadTimes(last) /\ last.status = "ValueError"
    /\ ~ store.exists
    /\ \E p \in Paths : files[p].present /\ files[p].readable

\* C9 as claimed: every row read_index(s, e) returns overlaps [s, e], and
\* every stored row that overlaps [s, e] and passes the code filters is returned
C9_RowsOverlapWindow ==
    (last.op = "read_index" /\ last.status = "ok") =>
        LET f == last.args.filter
            pass == filter_index(store.rows, f[1], f[2], f[3], f[4], None, None)
        IN  /\ \A i \in DOMAIN last.index :
                ~ (   (QStart # None /\ last.index[i].endtime < QStart[1])
                   \/ (QEnd # None /\ last.index[i].starttime > QEnd[1]))
            /\ \A i \in DOMAIN store.rows :
                (   pass[i]
                 /\ ~ (   (QStart # None /\ store.rows[i].endtime < QStart[1])
                       \/ (QEnd # None /\ store.rows[i].starttime > QEnd[1])))
                    => store.rows[i] \in Range(last.index)

\* row lies in the window of the last query padded by the buffer
InPadded(row) ==
    ~ (   (QStart # None /\ row.endtime < QStart[1] - buffer)
       \/ (QEnd # None /\ row.starttime > QEnd[1] + buffer))

\* C9 amended: read_index(s, e) returns exactly the stored rows that overlap
\* [s - buffer, e + buffer] and pass the code filters, in stored order
C9_RowsOverlapPaddedWindow ==
    (last.op = "read_index" /\ last.status = "ok") =>
        LET f == last.args.filter
            pass == filter_index(store.rows, f[1], f[2], f[3], f[4], None, None)
        IN  last.index =
                Select(store.rows,
                       [i \in DOMAIN store.rows |-> pass[i] /\ InPadded(store.rows[i])])

C9_Witness ==
    /\ last.op = "read_index" /\ last.status = "ok"
    /\ QStart # None
    /\ \E i \in DOMAIN last.index : last.index[i].endtime < QStart[1]
    /\ \E i \in DOMAIN store.rows : ~ InPadded(store.rows[i])

\* C5: after put_waveforms(stream) returns, get_waveforms with the codes of a
\* written trace and its own time range returns a sample of that channel at
\* each of its sample times and at no other time, with the written value
\* unless the file held a sample of that channel and time before
C5_WriteReadRoundTrip ==
    (last.op = "put_waveforms" /\ last.status = "ok") =>
        \A k \in DOMAIN last.args.stream :
            LET tr == last.args.stream[k]
                p == TracePath(tr, last.args.name)
                r == get_waveforms(files, store, cache, clock,
                                   Str(tr.network), Str(tr.station),
                                   Str(tr.location), Str(tr.channel),
                                   Some(tr.starttime), Some(tr.endtime))
                got == { x \in r.stream : x.id = TraceId(tr) }
            IN  /\ r.status = "ok"
                /\ { x.t : x \in got } = { s.t : s \in TraceSamples(tr) }
                /\ \A s \in TraceSamples(tr) :
                      ~ Covers(last.pre.files[p].samples, s) => s \in got

-----------------------------------------------------------------------------
(* Properties of get_waveforms_bulk, under SpecBulk *)

\* the seed ids of the traces of a stream
StreamIds(stream) == { x.id : x \in stream }

\* C3: get_waveforms_bulk called with one request whose start <= end returns
\* series with the same set of seed ids as get_waveforms called with the same
\* six parameters
C3_BulkSingleConsistency ==
    (   last.op = "get_waveforms_bulk" /\ Len(last.args.bulk) = 1
     /\ last.args.bulk[1].t1 <= last.args.bulk[1].t2) =>
        LET b == last.args.bulk[1]
            r == get_waveforms(files, store, cache, clock,
                               Str(b.network), Str(b.station), Str(b.location),
                               Str(b.channel), Some(b.t1), Some(b.t2))
        IN  /\ r.status = last.status
            /\ StreamIds(r.stream) = StreamIds(last.stream)

\* request b bears a wildcard: one of its codes holds *, ?, [ or ]
IsWildcard(b) == \E k \in DOMAIN NSLC : _column_contains(b[NSLC[k]], match_chars)

\* row is matched by request b: by its patterns when b bears a wildcard, by
\* its seed id otherwise
MatchedBy(row, b) ==
    IF IsWildcard(b)
    THEN filter_index(<<row>>, Str(b.network), Str(b.station), Str(b.location),
                      Str(b.channel), None, None)[1]
    ELSE _get_nslc(row) = _get_nslc(b)

\* C4: for a time group of get_waveforms_bulk that holds both wildcard and
\* exact requests, the index rows selected for the group are exactly the rows
\* matched by at least one request of the group
C4_BulkUnionOfMasks ==
    (last.op = "get_waveforms_bulk" /\ last.status = "ok") =>
        LET bulk == last.args.bulk
            unique_times == SortPairs({ <<bulk[i].t1, bulk[i].t2>> : i \in DOMAIN bulk })
        IN  \A g \in DOMAIN last.picked :
                LET df == SelectSeq(bulk, LAMBDA b : <<b.t1, b.t2>> = unique_times[g])
                IN  (   (\E k \in DOMAIN df : IsWildcard(df[k]))
                     /\ (\E k \in DOMAIN df : ~ IsWildcard(df[k]))) =>
                        last.picked[g] =
                            Select(last.index,
                                   [i \in DOMAIN last.index |->
                                        \E k \in DOMAIN df : MatchedBy(last.index[i], df[k])])

-----------------------------------------------------------------------------
(* Properties of filter_index, under SpecFilter *)

\* value v of a row meets filter f: no filter, a pattern, or a set of codes
Meets(f, v) ==
    CASE f.kind = "none" -> TRUE
      [] f.kind = "str" -> FnMatch(f.val, v)
      [] f.kind = "seq" -> v \in f.val

\* C10: filter_index returns a mask as long as the index in which a row is
\* true exactly when it meets every given constraint: an absent filter
\* constrains nothing, a string is matched as a pattern, a sequence passes
\* the rows whose value is one of its elements (not expanded as patterns),
\* and given times pass the rows that overlap them
C10_FilterIsConjunction ==
    last.op = "filter_index" =>
        LET a == last.args
        IN  /\ DOMAIN last.mask = DOMAIN a.index
            /\ \A i \in DOMAIN a.index :
                  last.mask[i] =
                     (   Meets(a.net, a.index[i].network)
                      /\ Meets(a.sta, a.index[i].station)
                      /\ Meets(a.loc, a.index[i].location)
                      /\ Meets(a.chan, a.index[i].channel)
                      /\ ~ (   (a.start # None /\ a.index[i].endtime < a.start[1])
                            \/ (a.end # None /\ a.index[i].starttime > a.end[1])))

\* a sequence filter with a wildcard element rejected a row the element would
\* match as a pattern, next to a row that passes every filter, and a row
\* failed only one of two given filters
C10_Witness ==
    /\ last.op = "filter_index"
    /\ last.args.sta.kind = "seq" /\ last.args.loc.kind = "str"
    /\ \E i \in DOMAIN last.mask :
          /\ ~ last.mask[i]
          /\ last.args.index[i].station \notin last.args.sta.val
          /\ \E pat \in last.args.sta.val : FnMatch(pat, last.args.index[i].station)
          /\ Meets(last.args.loc, last.args.index[i].location)
    /\ \E i \in DOMAIN last.mask : last.mask[i]

-----------------------------------------------------------------------------
(* Queries on an archive without waveform files, under SpecAvail *)

\* the base directory holds no waveform file (it may hold files that are no
\* waveform files) and there is no index store
EmptyArchive ==
    /\ ~ IndexExists(store)
    /\ \A p \in Paths : ~ (Exists(files, p) /\ files[p].readable)

\* the (starttime, endtime) of Windows with starttime <= endtime
ValidWindows ==
    { w \in Windows : w[1] = None \/ w[2] = None \/ w[1][1] <= w[2][1] }

\* the call returned without an exception and returned nothing
ReturnedEmpty(r) ==
    /\ r.status = "ok"
    /\ r.index = <<>>
    /\ r.stream = {}
    /\ \A k \in DOMAIN r.parts : r.parts[k] = {}

\* C8: on a base directory that holds no waveform files and no index store,
\* read_index, get_waveforms, get_waveforms_bulk, get_waveforms_by_seed,
\* yield_waveforms, get_gaps_df and get_uptime_df return an empty result and
\* raise no exception
C8_EmptyArchiveQueriesEmpty ==
    EmptyArchive =>
        /\ \A fi \in DOMAIN Filters, w \in ValidWindows :
              ReturnedEmpty(read_index(files, store, cache, clock, Filters[fi][1],
                                       Filters[fi][2], Filters[fi][3], Filters[fi][4],
                                       w[1], w[2], ""))
        /\ \A fi \in DOMAIN Exact, w \in ValidWindows :
              ReturnedEmpty(get_waveforms(files, store, cache, clock, Exact[fi][1],
                                          Exact[fi][2], Exact[fi][3], Exact[fi][4],
                                          w[1], w[2]))
        /\ \A bulk \in Bulks :
              ReturnedEmpty(get_waveforms_bulk(files, store, cache, clock, bulk))
        /\ \A si \in DOMAIN Seeds, w \in SeedWindows :
              ReturnedEmpty(get_waveforms_by_seed(files, store, cache, clock,
                                                  Seeds[si], w[1], w[2]))
        /\ \A fi \in {1, 2}, w \in YieldWindows :
              ReturnedEmpty(yield_waveforms(files, store, cache, clock, Filters[fi][1],
                                            Filters[fi][2], Filters[fi][3],
                                            Filters[fi][4], w[1], w[2], 2 * delta, None))
        /\ \A fi \in {1, 2}, min_gap \in {0, 1000} :
              ReturnedEmpty(get_gaps_df(files, store, cache, clock, Filters[fi][1],
                                        Filters[fi][2], Filters[fi][3], Filters[fi][4],
                                        None, None, min_gap))
        /\ \A fi \in {1, 2} :
              ReturnedEmpty(get_uptime_df(files, store, cache, clock, Filters[fi][1],
                                          Filters[fi][2], Filters[fi][3], Filters[fi][4],
                                          None, None))

-----------------------------------------------------------------------------
(* Shell-style matching, under SpecFilter *)

\* pattern pat, made of literal characters, "*" and "?", matches the whole
\* of s: s splits into one piece per pattern character, a piece of any
\* length for "*" and of one character for "?" or for that literal
ShellMatch(pat, s) ==
    \E cut \in [0 .. Len(pat) -> 0 .. Len(s)] :
        /\ cut[0] = 0 /\ cut[Len(pat)] = Len(s)
        /\ \A k \in 1 .. Len(pat) :
              /\ cut[k - 1] <= cut[k]
              /\ pat[k] # "*" => cut[k] = cut[k - 1] + 1
              /\ pat[k] \notin {"*", "?"} => s[cut[k]] = pat[k]

\* the pattern holds no character class
Plain(pat) == \A k \in DOMAIN pat : pat[k] \notin {"[", "]"}

\* the last call filtered on the station pattern alone
StationOnly ==
    /\ last.op = "filter_index"
    /\ last.args.sta.kind = "str" /\ Plain(last.args.sta.val)
    /\ last.args.net.kind = "none" /\ last.args.loc.kind = "none"
    /\ last.args.chan.kind = "none"
    /\ last.args.start = None /\ last.args.end = None

\* C11: a string filter is a full-string shell-style match: a row passes the
\* station pattern exactly when its whole station matches with "*" standing
\* for any sequence of characters and "?" for exactly one, and no row passes
\* a call whose string filters it does not match as a whole; "A*" passes
\* "ABC" and "A1" but not "BXY", "A?" passes "A1" but not "ABC"
C11_WildcardFullMatch ==
    /\ StationOnly =>
          \A i \in DOMAIN last.mask :
              last.mask[i] = ShellMatch(last.args.sta.val, last.args.index[i].station)
    /\ last.op = "filter_index" =>
          \A i \in DOMAIN last.mask :
              last.mask[i] =>
                  /\ (last.args.sta.kind = "str" /\ Plain(last.args.sta.val))
                        => ShellMatch(last.args.sta.val, last.args.index[i].station)
                  /\ (last.args.loc.kind = "str" /\ Plain(last.args.loc.val))
                        => ShellMatch(last.args.loc.val, last.args.index[i].location)
    /\ (StationOnly /\ last.args.sta.val = <<"A", "*">>) =>
          \A i \in DOMAIN last.mask :
              /\ last.args.index[i].station \in {ABC, A1} => last.mask[i]
              /\ last.args.index[i].station = BXY => ~ last.mask[i]
    /\ (StationOnly /\ last.args.sta.val = <<"A", "?">>) =>
          \A i \in DOMAIN last.mask :
              /\ last.args.index[i].station = A1 => last.mask[i]
              /\ last.args.index[i].station = ABC => ~ last.mask[i]

\* "A?" passed "A1" and rejected "ABC" in one call
C11_Witness ==
    /\ StationOnly /\ last.args.sta.val = <<"A", "?">>
    /\ \E i, j \in DOMAIN last.mask :
          /\ last.args.index[i].station = A1 /\ last.mask[i]
          /\ last.args.index[j].station = ABC /\ ~ last.mask[j]

-----------------------------------------------------------------------------
(* Gaps and uptime, under SpecGaps *)

\* the stored rows the last call read: those passing its code filters
RowsRead ==
    Select(store.rows,
           filter_index(store.rows, last.args.filter[1], last.args.filter[2],
                        last.args.filter[3], last.args.filter[4], None, None))

\* the rows of one seed id in an order that is sorted by (starttime, endtime)
InOrder(G) ==
    LET Leq(a, b) == a.starttime < b.starttime
                     \/ (a.starttime = b.starttime /\ a.endtime <= b.endtime)
        perm == CHOOSE f \in [DOMAIN G -> DOMAIN G] :
                    /\ \A i, j \in DOMAIN G : i # j => f[i] # f[j]
                    /\ \A i, j \in DOMAIN G : i < j => Leq(G[f[i]], G[f[j]])
    IN  [k \in DOMAIN G |-> G[perm[k]]]

\* the positions of the sorted rows dd that end more than min_gap before the
\* next row starts
GapsAt(dd, min_gap) ==
    { k \in 1 .. (Len(dd) - 1) : dd[k].endtime + min_gap < dd[k + 1].starttime }

RECURSIVE GapTime(_, _)
\* the sum of next start - end over the positions ks of dd
GapTime(dd, ks) ==
    IF ks = {} THEN 0
    ELSE LET k == CHOOSE x \in ks : TRUE
         IN  (dd[k + 1].starttime - dd[k].endtime) + GapTime(dd, ks \ {k})

\* the gap rows get_gaps_df is to report for the rows G of one seed id
GapsOf(G, min_gap) ==
    LET dd == InOrder(G)
    IN  { [network |-> dd[k].network, station |-> dd[k].station,
           location |-> dd[k].location, channel |-> dd[k].channel,
           starttime |-> dd[k].endtime, endtime |-> dd[k + 1].starttime,
           gap_duration |-> dd[k + 1].starttime - dd[k].endtime] :
             k \in GapsAt(dd, min_gap) }

\* the stored rows of channel UU.A1..HHZ are [0,100], [100,200], [300,400] s
ThreeRecordings ==
    LET G == Group(RowsRead, <<UU, A1, NoLoc, HHZ>>)
    IN  /\ Len(G) = 3
        /\ { <<G[i].starttime, G[i].endtime>> : i \in DOMAIN G }
              = { <<0, 100000>>, <<100000, 200000>>, <<300000, 400000>> }

-----------------------------------------------------------------------------
(* Updates of the index, under Spec *)

\* the scan of the directory finds no file to index
ZeroFiles == unindexed_files(files, store) = <<>>

\* C13: an update_index that finds no file newer than last_updated, or no file
\* at all on a first scan, leaves the rows, the metadata and last_updated as
\* they are, creates no store if there was none, and raises nothing
C13_ZeroFileUpdateNoOp ==
    [][(ZeroFiles /\ last'.op = "update_index")
          => (store' = store /\ last'.status = "ok" /\ last'.appended = <<>>)]_vars

\* an update that directly follows an update returned having found nothing
\* to index, the store holding rows and their stamp
C13_Witness ==
    /\ last.op = "update_index" /\ last.args.again
    /\ last.status = "ok" /\ last.appended = <<>>
    /\ ZeroFiles
    /\ store.exists /\ store.rows # <<>> /\ store.last_updated # None

\* the pending files the extractor summarises into at least one row
Summarised ==
    { p \in Range(unindexed_files(files, store)) : summarize_wave_file(files, p) # <<>> }

\* C14: an update_index some of whose pending files yield no rows completes
\* without raising and appends the rows of every file that was summarised,
\* also when every pending file fails (then nothing is appended)
C14_ExtractionFailureContained ==
    [][last'.op = "update_index"
          => /\ last'.status = "ok"
             /\ { last'.appended[i].path : i \in DOMAIN last'.appended }
                   = { StripBankPath(p) : p \in Summarised }
             /\ store'.rows = store.rows \o last'.appended]_vars

-----------------------------------------------------------------------------
(* Appends to the index store, under SpecAppend *)

\* the batch of the last append holds a row with a null field or a row that
\* ends before it starts
InvalidBatch(updates) ==
    \E i \in DOMAIN updates :
        \/ updates[i].network = PyNone
        \/ updates[i].starttime = NaN \/ updates[i].endtime = NaN
        \/ updates[i].starttime > updates[i].endtime

\* C15: an append whose batch holds a row with a null field or with starttime
\* > endtime fails and leaves the store unchanged, so every stored row has no
\* null field and starts no later than it ends
C15_RowValidity ==
    /\ (last.op = "_write_update" /\ InvalidBatch(last.args.updates)) =>
          /\ last.status # "ok"
          /\ store.rows = last.pre.rows /\ store.exists = last.pre.exists
    /\ \A i \in DOMAIN store.rows :
          /\ store.rows[i].starttime # NaN /\ store.rows[i].endtime # NaN
          /\ store.rows[i].starttime <= store.rows[i].endtime

-----------------------------------------------------------------------------
(* The store as a log, under Spec *)

\* C16: over update_index, put_waveforms and the queries the row count of the
\* store never decreases, the rows it holds are never modified or removed,
\* and a batch appended to a store of n rows gets the labels n, n+1, ..., so
\* no two rows share a label
C16_AppendOnly ==
    [][/\ Len(store'.rows) >= Len(store.rows)
       /\ SubSeq(store'.rows, 1, Len(store.rows)) = store.rows
       /\ \A i \in (Len(store.rows) + 1) .. Len(store'.rows) :
             store'.rows[i].label = Len(store.rows) + (i - Len(store.rows)) - 1
       /\ \A i, j \in DOMAIN store'.rows :
             i # j => store'.rows[i].label # store'.rows[j].label]_vars

\* a batch was appended to a store that already held rows
C16_Witness ==
    /\ last.status = "ok"
    /\ last.appended # <<>> /\ last.pre.rows # <<>>
    /\ store.rows = last.pre.rows \o last.appended

\* the index rows that describe the segment from t0 to t1 of channel id in
\* the file at path p (the codes as the store writes them)
RowsFor(p, id, t0, t1) ==
    { i \in DOMAIN store.rows :
        /\ store.rows[i].path = StripBankPath(p)
        /\ store.rows[i].network = StripCode(id[1])
        /\ store.rows[i].station = StripCode(id[2])
        /\ store.rows[i].location = StripCode(id[3])
        /\ store.rows[i].channel = StripCode(id[4])
        /\ store.rows[i].starttime = t0 /\ store.rows[i].endtime = t1 }

\* C17: once put_waveforms or update_index has brought the index up to date,
\* every contiguous channel-segment of every file on disk is described by
\* exactly one index row; a file that was rewritten and indexed again does
\* not leave both its old and its new rows in the store
C17_OneRowPerSegment ==
    (last.updated /\ last.status = "ok") =>
        \A p \in Paths :
            files[p].present =>
                /\ \A id \in { s.id : s \in files[p].samples } :
                      \A k \in DOMAIN Segments(files[p].samples, id) :
                          Cardinality(RowsFor(p, id, Segments(files[p].samples, id)[k][1],
                                              Segments(files[p].samples, id)[k][2])) = 1
                /\ Cardinality({ i \in DOMAIN store.rows :
                                   store.rows[i].path = StripBankPath(p) })
                      = Cardinality({ <<id, k>> \in
                                        { s.id : s \in files[p].samples } \X (1 .. 4) :
                                        k \in DOMAIN Segments(files[p].samples, id) })

-----------------------------------------------------------------------------
(* Concurrent updates of the index, under SpecLock *)

\* the callers between the start of their scan and the end of their append
InUpdate == { c \in Callers : callers[c].pc \in {"scan", "count", "append"} }

\* C18: of the callers that invoke update_index concurrently on one base
\* directory at most one is between starting its scan and finishing its
\* append, so the row count a caller read is still the row count of the store
\* when it appends, and no two rows of the store share a label
C18_UpdateMutualExclusion ==
    /\ Cardinality(InUpdate) <= 1
    /\ \A c \in Callers :
          callers[c].pc = "append" => callers[c].nrows = StoredRows(store)
    /\ \A i, j \in DOMAIN store.rows :
          i # j => store.rows[i].label # store.rows[j].label

\* one caller is about to append to a store that holds rows while another
\* one, with a file left to index, waits for the lock
C18_Witness ==
    \E c, d \in Callers :
        /\ callers[c].pc = "append" /\ callers[c].nrows > 0
        /\ callers[d].pc = "wait"
        /\ lock = c

-----------------------------------------------------------------------------
(* The index update of put_waveforms, under Spec *)

\* the destination files of the traces of a put
Destinations(stream, name) == { TracePath(stream[i], name) : i \in DOMAIN stream }

\* C19: a put_waveforms of a stream with traces writes every destination file
\* and then invokes update_index once: every destination is written before
\* the one stamp the call leaves and is indexed by the one batch it appends;
\* a put of an empty stream writes no file and does not invoke update_index
C19_BatchedUpdateOnPut ==
    [][last'.op = "put_waveforms" =>
        LET Checked(dests) ==
              IF dests = {}
              THEN files' = files /\ ~ last'.updated /\ store' = store
              ELSE /\ last'.updated /\ last'.status = "ok"
                   /\ store'.last_updated # None
                   /\ \A p \in dests :
                         /\ files'[p].present
                         /\ clock < files'[p].mtime
                         /\ files'[p].mtime < store'.last_updated[1]
                         /\ \E i \in DOMAIN last'.appended :
                               last'.appended[i].path = StripBankPath(p)
                   /\ store'.rows = store.rows \o last'.appended
                   /\ store'.last_updated = Some(clock')
                   /\ clock' = clock + Cardinality(dests) + 1
        IN  Checked(Destinations(last'.args.stream, last'.args.name))]_vars

\* a put of two traces with two destinations was made into a bank that
\* already had an index
C19_Witness ==
    /\ last.op = "put_waveforms" /\ last.status = "ok" /\ last.updated
    /\ Cardinality(Destinations(last.args.stream, last.args.name)) = 2
    /\ last.pre.exists
    /\ Cardinality({ last.appended[i].path : i \in DOMAIN last.appended }) >= 2

-----------------------------------------------------------------------------
(* The index cache, under SpecCache *)

\* the range the cache reads from the store for a request
PaddedLo(starttime) == IF starttime = None THEN None ELSE Some(starttime[1] - buffer)
PaddedHi(endtime) == IF endtime = None THEN None ELSE Some(endtime[1] + buffer)

\* C20: the cache never holds more than cache_size entries; a read_index
\* that misses reads the store and keeps the rows under the exact
\* (starttime, endtime, buffer, extra parameters) of the request, dropping the
\* oldest entry when the cache was full; a read_index that repeats a cached
\* key returns the rows of the original store read without reading the store
C20_CacheCapacityAndKeying ==
    [][/\ Len(cache') <= cache_size
       /\ (last'.op = "read_index" /\ last'.status = "ok" /\ store'.exists) =>
            LET a == last'.args
                key == <<a.starttime, a.endtime, buffer, a.kwargs>>
                fresh == read_range(store', PaddedLo(a.starttime),
                                    PaddedHi(a.endtime), a.kwargs)
                Shown(index) ==
                    Select(index, filter_index(index, a.filter[1], a.filter[2],
                                               a.filter[3], a.filter[4], None, None))
                held == { i \in DOMAIN cache : cache[i].key = key }
            IN  IF held # {}
                THEN /\ ~ last'.storeRead
                     /\ cache' = cache
                     /\ \A i \in held :
                           /\ last'.index = Shown(cache[i].index)
                           /\ cache[i].index = fresh
                ELSE /\ last'.storeRead
                     /\ last'.index = Shown(fresh)
                     /\ cache' = (IF Len(cache) >= cache_size THEN Tail(cache) ELSE cache)
                                    \o << [key |-> key, index |-> fresh] >>]_vars

\* a read that missed was made with a full cache: the oldest entry went and
\* the rows read, which are not empty, are the newest entry
C20_Witness ==
    /\ last.op = "read_index" /\ last.status = "ok"
    /\ last.args.full /\ last.storeRead
    /\ Len(cache) = cache_size
    /\ cache[Len(cache)].key
          = <<last.args.starttime, last.args.endtime, buffer, last.args.kwargs>>
    /\ cache[Len(cache)].index # <<>>

-----------------------------------------------------------------------------
(* The assembly of a stream from index rows, under SpecAssemble *)

\* the samples _index2stream is to return for the rows of the last call: those
\* of the files of the rows that can be read, of the channels of the rows,
\* within the window
Assembled ==
    LET chosen == { x \in UNION { try_read_stream(files, <<bank_path>> \o last.index[i].path) :
                                    i \in DOMAIN last.index } :
                      \E i \in DOMAIN last.index :
                          x.id = <<last.index[i].network, last.index[i].station,
                                   last.index[i].location, last.index[i].channel>> }
        t1 == IF last.args.starttime = None \/ last.args.starttime = Some(0)
              THEN Min({ x.t : x \in chosen }) ELSE last.args.starttime[1]
        t2 == IF last.args.endtime = None \/ last.args.endtime = Some(0)
              THEN Max({ x.t : x \in chosen }) ELSE last.args.endtime[1]
    IN  IF chosen = {} THEN {} ELSE { x \in chosen : t1 <= x.t /\ x.t <= t2 }

\* C21: _index2stream reads each file of the given rows exactly once, takes a
\* file that cannot be read as holding no data without failing the request,
\* and returns only series whose seed id occurs in the rows, also when a file
\* it read holds further channels
C21_AssemblyReadsOnceMatchedOnly ==
    (last.op = "get_waveforms" /\ last.status = "ok") =>
        /\ \A i, j \in DOMAIN FilesToRead(last.index) :
              i # j => FilesToRead(last.index)[i] # FilesToRead(last.index)[j]
        /\ Range(FilesToRead(last.index))
              = { <<bank_path>> \o last.index[i].path : i \in DOMAIN last.index }
        /\ \A x \in last.stream :
              \E i \in DOMAIN last.index :
                  x.id = <<last.index[i].network, last.index[i].station,
                           last.index[i].location, last.index[i].channel>>
        /\ last.stream = Assembled

\* a stream was assembled from two rows, the file of one being gone and the
\* file of the other holding a channel that is not among the rows
C21_Witness ==
    /\ last.op = "get_waveforms" /\ last.status = "ok"
    /\ Len(last.index) >= 2
    /\ \E i \in DOMAIN last.index : ~ files[<<bank_path>> \o last.index[i].path].present
    /\ \E i \in DOMAIN last.index :
          \E x \in try_read_stream(files, <<bank_path>> \o last.index[i].path) :
              SeedStr(x.id) \notin IndexSeeds(last.index)
    /\ last.stream # {}

-----------------------------------------------------------------------------
(* The progress hook of update_index, under SpecHook *)

\* C22: for one state of the directory, the rows update_index appends, the
\* last_updated it leaves and its clearing of the cache are the same without
\* a progress hook, with one, and with one whose update or finish fails: a
\* failing hook does not keep the pending files from being indexed
C22_ProgressHookCosmetic ==
    [][last'.op = "update_index" =>
          /\ store' = update_index(files, store, cache, clock).store
          /\ cache' = update_index(files, store, cache, clock).cache
          /\ last'.appended = update_index(files, store, cache, clock).appended]_vars

-----------------------------------------------------------------------------
(* The order of a bulk result, under SpecBulk *)

\* the (start, end) windows of a request list in the order in which they
\* first occur in it
RequestGroups(bulk) == Unique([i \in DOMAIN bulk |-> <<bulk[i].t1, bulk[i].t2>>])

-----------------------------------------------------------------------------
(* The metadata of the index, under Spec *)

\* C24: the metadata record is created by the first successful append and is
\* never rewritten by a later update_index or put_waveforms; of the store's
\* bookkeeping only last_updated changes afterwards, and it never decreases
C24_MetadataWrittenOnce ==
    [][/\ store.meta # None => store'.meta = store.meta
       /\ (store.meta = None /\ store'.meta # None) =>
             /\ last'.status = "ok" /\ last'.appended # <<>>
             /\ store.rows = <<>>
             /\ store'.meta = Some(MetaTable)
       /\ (store'.rows # <<>>) => store'.meta # None
       /\ store.last_updated # None =>
             /\ store'.last_updated # None
             /\ store'.last_updated[1] >= store.last_updated[1]]_vars

\* a later append went into a store that had its metadata: the metadata are
\* as they were and the stamp is that of the append
C24_Witness ==
    /\ last.op \in {"update_index", "put_waveforms"} /\ last.status = "ok"
    /\ last.pre.exists /\ last.pre.rows # <<>> /\ last.appended # <<>>
    /\ store.meta = Some(MetaTable)
    /\ store.last_updated = Some(clock)

\* the waveform files in the directory that no index row describes
Unindexed ==
    { p \in Paths : /\ files[p].present /\ files[p].readable
                     /\ ~ \E i \in DOMAIN store.rows :
                            store.rows[i].path = StripBankPath(p) }

\* C25: no file modification is lost: a file in the directory that is not in
\* the index is one the next scan of update_index yields, its modification
\* time being later than last_updated; so a file created while an update is
\* in progress, after the scan and before the stamp, is indexed by the next
\* update and not skipped for ever
C25_NoModificationLost ==
    \A p \in Unindexed : p \in Range(unindexed_files(files, store))

-----------------------------------------------------------------------------
(* Reads of the index that interleave with an update, under SpecRace *)

\* C26: when a read_index of one thread interleaves with an update_index of
\* another thread of the same bank, no cache entry read from the store before
\* the append is in the cache after update_index has returned: every entry
\* holds the rows a read of the store gives now, so a read_index that starts
\* after the update sees the appended rows
C26_NoStaleCacheEntry ==
    \A i \in DOMAIN cache :
        cache[i].index = read_range(store, PaddedLo(cache[i].key[1]),
                                    PaddedHi(cache[i].key[2]), cache[i].key[4])

-----------------------------------------------------------------------------
(* Coverage and soundness of the gap and uptime tables, under SpecGaps *)

\* the seed ids of the stored rows the last call read
KeysRead == { RowKey(RowsRead[i]) : i \in DOMAIN RowsRead }

\* C27: get_uptime_df returns exactly one line for each seed id of the rows
\* it read, with or without gaps; a seed id without gaps has gap_duration 0
\* and availability 1, also when other seed ids of the query have gaps
C27_UptimeCoversEveryId ==
    (last.op = "get_uptime_df" /\ last.status = "ok") =>
        /\ \A key \in KeysRead :
              Cardinality({ i \in DOMAIN last.index : RowKey(last.index[i]) = key }) = 1
        /\ \A i \in DOMAIN last.index :
              /\ RowKey(last.index[i]) \in KeysRead
              /\ GapsAt(InOrder(Group(RowsRead, RowKey(last.index[i]))), 1000) = {} =>
                    /\ last.index[i].gap_duration = 0
                    /\ last.index[i].availability[1] = last.index[i].availability[2]

\* C28: every gap row of get_gaps_df describes an interval that no index row
\* of its seed id overlaps in its interior, also when the segments of the
\* seed id overlap or one encloses later ones; so the summed gap_duration of
\* a seed id does not exceed its duration and its availability is in [0, 1]
C28_ReportedGapsUncovered ==
    /\ (last.op = "get_gaps_df" /\ last.status = "ok") =>
          \A g \in DOMAIN last.index :
              \A i \in DOMAIN RowsRead :
                  RowKey(RowsRead[i]) = RowKey(last.index[g]) =>
                      ~ (/\ RowsRead[i].starttime < last.index[g].endtime
                         /\ RowsRead[i].endtime > last.index[g].starttime)
    /\ (last.op = "get_uptime_df" /\ last.status = "ok") =>
          \A i \in DOMAIN last.index :
              /\ last.index[i].gap_duration <= last.index[i].duration
              /\ 0 <= last.index[i].availability[1]
              /\ last.index[i].availability[1] <= last.index[i].availability[2]

-----------------------------------------------------------------------------
(* The codes of the stored rows, under Spec *)

\* the rows of the store that a query with the four codes of id selects
FoundBy(id) ==
    LET Hit(mask) == { i \in DOMAIN store.rows : mask[i] }
    IN  Hit(filter_index(store.rows, Str(id[1]), Str(id[2]), Str(id[3]), Str(id[4]),
                         None, None))

\* C29: the normalisation of the code columns in _write_update leaves a code
\* without byte-string marker or quote as it is: every stored row carries the
\* codes of a channel of its file, and once the index is up to date every
\* channel of every file is found by a query with the file's own codes
C29_NormalisationKeepsCodes ==
    /\ \A i \in DOMAIN store.rows :
          \E s \in files[<<bank_path>> \o store.rows[i].path].samples :
              s.id = <<store.rows[i].network, store.rows[i].station,
                       store.rows[i].location, store.rows[i].channel>>
    /\ (last.updated /\ last.status = "ok") =>
          \A p \in Paths :
              \A id \in { s.id : s \in files[p].samples } :
                  \E i \in FoundBy(id) : store.rows[i].path = StripBankPath(p)

====
